---- MODULE Spec2Model ----
(***************************************************************************)
(* SahAI conversational core: the per-session fact store (Memory) with its *)
(* contradiction queue, the turn context (StateContext) with the fixed     *)
(* transition graph (StateMachine), the planner / executor / evaluator     *)
(* turn of AgenticAgent.process, the process-wide FailureHandler, the      *)
(* eligibility check of one catalog entry and the catalog search.          *)
(*                                                                         *)
(* Values of facts are integers.  Strings of the program are written as    *)
(* small codes (gender 1 = "male", 2 = "female", ...), Python True is 1,   *)
(* and NoneV stands for Python None.                                       *)
(***************************************************************************)
EXTENDS Integers, Sequences, FiniteSets, TLC

VARIABLES memory, clock, ret, ctx, pc, turn, failure_history

vars == <<memory, clock, ret, ctx, pc, turn, failure_history>>

(***************************************************************************)
(* Bounds of the model.                                                    *)
(***************************************************************************)
\* number of Memory API calls explored in the fact-store specification
MaxOps == 4
\* number of distinct fields one explored session writes
MaxFields == 1
\* number of StateContext.transition_to calls explored on one context
MaxTransitions == 2
\* number of turns of AgenticAgent.process explored on one session
MaxTurns == 1
\* number of events before the first turn of the explored session: facts
\* confirmed on it and failures recorded by other sessions of the process
MaxSeeds == 1
\* records in the failure history
MaxRecords == 6
\* turns that end in _handle_error
MaxFailingTurns == 6
\* advances of the clock
MaxTicks == 2
\* calls of the failure handler's helpers
MaxCalls == 7
\* entries of a searched catalog
MaxCatalog == 2
\* Memory.add_turn calls explored on one session
MaxAdds == 4
\* tags of one entry that a query matches
MaxTags == 3
\* sessions constructed by get_or_create_session
MaxSessions == 2
\* contradictions pending on a session when a turn begins
MaxPending == 2
MaxFreshTurns == 2

(***************************************************************************)
(* Program constants.                                                      *)
(***************************************************************************)
NoneV == 0 - 1

VALID_FIELDS ==
  {"age", "income", "gender", "category", "state",
   "occupation", "disability", "bpl", "area", "name"}

STABLE_FIELDS == {"age", "gender", "category", "disability"}

MUTABLE_FIELDS == {"income", "state", "area", "occupation", "bpl"}

IncomeTolerance == 50000

AgeTolerance == 1

(***************************************************************************)
(* Helpers for Python dicts (functions with a growing domain) and lists.   *)
(***************************************************************************)
EmptyDict == <<>>

Put(d, k, v) == [x \in (DOMAIN d) \cup {k} |-> IF x = k THEN v ELSE d[x]]

DictGet(d, k, default) == IF k \in DOMAIN d THEN d[k] ELSE default

Abs(x) == IF x < 0 THEN 0 - x ELSE x

Min(S) == CHOOSE x \in S : \A y \in S : x <= y

RemoveAt(s, i) == SubSeq(s, 1, i - 1) \o SubSeq(s, i + 1, Len(s))

(***************************************************************************)
(* Memory: the per-session fact store.                                     *)
(***************************************************************************)
\* Memory.__init__: a fresh session created at time now
NewMemory(now) ==
  [data |-> EmptyDict,
   confirmed |-> EmptyDict,
   field_history |-> EmptyDict,
   contradictions |-> <<>>,
   pending |-> <<>>,
   history |-> <<>>,
   current_scheme |-> "none",
   created_at |-> now,
   last_activity |-> now]

\* the Contradiction dataclass, as constructed by Memory.set
NewContradiction(key, old, value, now) ==
  [field |-> key,
   old_value |-> old,
   new_value |-> value,
   contradiction_type |-> "value_conflict",
   timestamp |-> now,
   resolved |-> FALSE,
   resolution |-> "none",
   user_explanation |-> "none"]

IsRecognized_Lax(key) == TRUE

\* Memory.set, the vocabulary test at its entry
IsRecognized(key) == key \in VALID_FIELDS

Contradicts_AtThreshold(key, old, value) ==
  IF key \in STABLE_FIELDS
  THEN TRUE
  ELSE IF key \in MUTABLE_FIELDS
       THEN IF key = "income" /\ Abs(old - value) >= IncomeTolerance
            THEN TRUE
            ELSE key = "age" /\ Abs(old - value) > AgeTolerance
       ELSE FALSE

Contradicts_StableTolerated(key, old, value) ==
  IF key \in MUTABLE_FIELDS \cup STABLE_FIELDS
  THEN IF key = "income" /\ Abs(old - value) > IncomeTolerance
       THEN TRUE
       ELSE key = "age" /\ Abs(old - value) > AgeTolerance
  ELSE FALSE

\* Memory.set, the branch that decides whether a differing write contradicts
Contradicts(key, old, value) ==
  IF key \in STABLE_FIELDS
  THEN TRUE
  ELSE IF key \in MUTABLE_FIELDS
       THEN IF key = "income" /\ Abs(old - value) > IncomeTolerance
            THEN TRUE
            ELSE key = "age" /\ Abs(old - value) > AgeTolerance
       ELSE FALSE

Differs_IgnoresEquality(m, key, value) ==
  key \in DOMAIN m.data /\ m.data[key] # NoneV

\* Memory.set, the test that opens the contradiction check
Differs(m, key, value) ==
  key \in DOMAIN m.data /\ m.data[key] # NoneV /\ m.data[key] # value

\* Memory.set, what a contradicting write to a confirmed field does
RejectWrite(m, cidx) ==
  [mem |-> [m EXCEPT !.pending = Append(@, cidx)], ok |-> FALSE, contra |-> cidx]

StoreWrite_AlwaysConfirmed(m, key, value, conf, now, cidx) ==
  [mem |-> [m EXCEPT !.data = Put(@, key, value),
                     !.confirmed = Put(@, key, TRUE),
                     !.field_history =
                        Put(@, key, Append(@[key], <<value, now, "user">>)),
                     !.last_activity = now],
   ok |-> TRUE,
   contra |-> cidx]

\* Memory.set, the update of the stored fact
StoreWrite(m, key, value, conf, now, cidx) ==
  [mem |-> [m EXCEPT !.data = Put(@, key, value),
                     !.confirmed = Put(@, key, conf),
                     !.field_history =
                        Put(@, key, Append(@[key], <<value, now, "user">>)),
                     !.last_activity = now],
   ok |-> TRUE,
   contra |-> cidx]

\* Memory.set(key, value, confirmed): result [mem, ok, contra]; contra is the
\* position of the returned Contradiction in memory.contradictions, 0 for None
MemorySet(m, key, value, conf, now) ==
  IF ~IsRecognized(key)
  THEN [mem |-> m, ok |-> FALSE, contra |-> 0]
  ELSE LET m1 == IF key \in DOMAIN m.field_history
                 THEN m
                 ELSE [m EXCEPT !.field_history = Put(@, key, <<>>)]
           raised == Differs(m, key, value) /\ Contradicts(key, m.data[key], value)
           m2 == IF raised
                 THEN [m1 EXCEPT !.contradictions =
                         Append(@, NewContradiction(key, m.data[key], value, now))]
                 ELSE m1
           cidx == IF raised THEN Len(m2.contradictions) ELSE 0
       IN IF raised /\ DictGet(m.confirmed, key, FALSE)
          THEN RejectWrite(m2, cidx)
          ELSE StoreWrite(m2, key, value, conf, now, cidx)

FirstPending_Newest(m, field) ==
  LET S == {i \in 1..Len(m.pending) :
              /\ m.contradictions[m.pending[i]].field = field
              /\ ~m.contradictions[m.pending[i]].resolved}
  IN IF S = {} THEN 0 ELSE CHOOSE i \in S : \A j \in S : j <= i

\* Memory.resolve_contradiction, the loop: position in the pending list of
\* the first unresolved contradiction of the field, 0 if there is none
FirstPending(m, field) ==
  LET S == {i \in 1..Len(m.pending) :
              /\ m.contradictions[m.pending[i]].field = field
              /\ ~m.contradictions[m.pending[i]].resolved}
  IN IF S = {} THEN 0 ELSE Min(S)

\* list.remove(x): drops the first element equal to x
ListRemove(pend, cons, x) ==
  LET S == {j \in 1..Len(pend) : cons[pend[j]] = x}
  IN IF S = {} THEN pend ELSE RemoveAt(pend, Min(S))

MemoryResolve_Unconfirmed(m, field, use_new, expl) ==
  LET i == FirstPending(m, field)
  IN IF i = 0
     THEN [mem |-> m, ok |-> FALSE, contra |-> 0]
     ELSE LET c == m.pending[i]
              done == [m.contradictions[c] EXCEPT
                         !.resolution = IF use_new THEN "used_new" ELSE "kept_old",
                         !.resolved = TRUE,
                         !.user_explanation = expl]
              cons == [m.contradictions EXCEPT ![c] = done]
          IN [mem |-> [m EXCEPT
                         !.data = IF use_new THEN Put(@, field, done.new_value) ELSE @,
                         !.contradictions = cons,
                         !.pending = ListRemove(@, cons, done),
                         !.confirmed = Put(@, field, FALSE)],
              ok |-> TRUE,
              contra |-> c]

\* Memory.resolve_contradiction(field, use_new_value, user_explanation):
\* result [mem, ok, contra]; contra is the position of the contradiction it
\* resolved in memory.contradictions, 0 when it found none
MemoryResolve(m, field, use_new, expl) ==
  LET i == FirstPending(m, field)
  IN IF i = 0
     THEN [mem |-> m, ok |-> FALSE, contra |-> 0]
     ELSE LET c == m.pending[i]
              done == [m.contradictions[c] EXCEPT
                         !.resolution = IF use_new THEN "used_new" ELSE "kept_old",
                         !.resolved = TRUE,
                         !.user_explanation = expl]
              cons == [m.contradictions EXCEPT ![c] = done]
          IN [mem |-> [m EXCEPT
                         !.data = IF use_new THEN Put(@, field, done.new_value) ELSE @,
                         !.contradictions = cons,
                         !.pending = ListRemove(@, cons, done),
                         !.confirmed = Put(@, field, TRUE)],
              ok |-> TRUE,
              contra |-> c]

\* Memory.has_pending_contradictions
HasPending(m) == Len(m.pending) > 0

\* Memory.get_pending_contradictions: the pending Contradiction objects
GetPending(m) == [i \in 1..Len(m.pending) |-> m.contradictions[m.pending[i]]]

\* Memory.has
Has(m, key) == key \in DOMAIN m.data /\ m.data[key] # NoneV

(***************************************************************************)
(* StateMachine and StateContext.                                          *)
(***************************************************************************)
\* AgentState
AgentStates ==
  {"idle", "receiving_input", "planning", "analyzing_intent", "selecting_tools",
   "executing", "calling_tool", "waiting_for_info", "evaluating",
   "checking_completeness", "handling_contradiction", "generating_response",
   "complete", "error_recovery", "clarification_needed"}

\* StateMachine._init_transitions
TransitionRules ==
  [x \in AgentStates |->
     CASE x = "idle" -> {"receiving_input"}
       [] x = "receiving_input" -> {"planning", "error_recovery"}
       [] x = "planning" -> {"analyzing_intent", "error_recovery"}
       [] x = "analyzing_intent" ->
            {"selecting_tools", "generating_response", "clarification_needed"}
       [] x = "selecting_tools" ->
            {"executing", "waiting_for_info", "generating_response"}
       [] x = "executing" -> {"calling_tool", "evaluating", "error_recovery"}
       [] x = "calling_tool" ->
            {"executing", "evaluating", "waiting_for_info", "error_recovery"}
       [] x = "waiting_for_info" -> {"generating_response", "clarification_needed"}
       [] x = "evaluating" ->
            {"checking_completeness", "handling_contradiction", "generating_response"}
       [] x = "checking_completeness" ->
            {"generating_response", "executing", "clarification_needed"}
       [] x = "handling_contradiction" ->
            {"clarification_needed", "generating_response"}
       [] x = "clarification_needed" -> {"generating_response"}
       [] x = "generating_response" -> {"complete"}
       [] x = "error_recovery" ->
            {"generating_response", "planning", "clarification_needed"}
       [] x = "complete" -> {"idle"}]

\* StateMachine.can_transition
CanTransition(from_state, to_state) ==
  to_state \in DictGet(TransitionRules, from_state, {})

\* the features of a user utterance that the code looks at: the fields the
\* extractor finds, the keyword families of _analyze_intent it matches,
\* whether it has fewer than five words, the scheme its keywords refer to,
\* and which value of the oldest pending contradiction it selects
NoInput ==
  [extracted |-> EmptyDict, kw |-> {}, short |-> FALSE, scheme |-> "none",
   says |-> "none"]

NoPlan ==
  [present |-> FALSE, intent |-> "unknown", required_tools |-> <<>>,
   required_info |-> <<>>, available_info |-> EmptyDict, missing_info |-> <<>>,
   steps |-> <<>>]

NoEvaluation ==
  [present |-> FALSE, is_complete |-> FALSE, quality_score |-> 0,
   missing |-> {}, needs_clarification |-> FALSE,
   contradiction_detected |-> FALSE,
   contradiction_details |-> [field |-> "none", old_value |-> 0, new_value |-> 0],
   next_action |-> "respond"]

MaxRetries == 3

\* StateContext as AgenticAgent.process constructs it
NewContext(input, now) ==
  [current_state |-> "receiving_input",
   previous_states |-> <<>>,
   current_input |-> input,
   current_plan |-> NoPlan,
   execution_results |-> <<>>,
   tools_called |-> <<>>,
   evaluation |-> NoEvaluation,
   error_count |-> 0,
   max_retries |-> MaxRetries,
   started_at |-> now,
   state_history |-> <<>>]

\* StateContext.transition_to
TransitionTo(c, new_state, reason, now) ==
  [c EXCEPT !.previous_states = Append(@, c.current_state),
            !.state_history = Append(@, [from |-> c.current_state,
                                         to |-> new_state,
                                         reason |-> reason,
                                         timestamp |-> now]),
            !.current_state = new_state]

\* StateContext.can_retry
CanRetry(c) == c.error_count < c.max_retries

(***************************************************************************)
(* The fact store driven through its API.                                  *)
(***************************************************************************)
\* values written to a field
WriteValues(f) ==
  IF f = "age" THEN {45, 70}
  ELSE IF f = "income" THEN {100000, 150000, 200000}
  ELSE {1, 2}

\* keys used in calls: the vocabulary and one unrecognized key
Keys == VALID_FIELDS \cup {"email"}

\* the last call made on the session: its arguments, what it returned, the
\* session as it was when the call was made, the fields whose latest call was
\* a successful resolve_contradiction (fresh), and whether the field of this
\* call was one of them when the call was made; for a call on the failure
\* handler the action type it returned, the index of that action, the time
\* of the call, and the times of the turns that have ended in _handle_error
NoRet == [op |-> "none", key |-> "none", value |-> 0, flag |-> FALSE,
          ok |-> FALSE, contra |-> 0, pre |-> NewMemory(0),
          fresh |-> {}, was_fresh |-> FALSE,
          action |-> "none", idx |-> 0, at |-> 0, errors |-> <<>>]

\* the turn in progress or last finished: its number, the session and the
\* failure history as they were when it began, the kind of reply it returned,
\* the recovery action behind the reply and the fields the reply asks for
NoTurn == [n |-> 0, start |-> NewMemory(0), failures |-> <<>>, reply |-> "none",
           action |-> "none", asked |-> <<>>]

InitCommon ==
  /\ memory = NewMemory(0)
  /\ clock = 1
  /\ ret = NoRet
  /\ ctx = NewContext(NoInput, 0)
  /\ pc = "idle"
  /\ turn = NoTurn
  /\ failure_history = <<>>

\* a caller invokes Memory.set(key, value, confirmed)
CallSet(key, value, conf) ==
  /\ clock <= MaxOps
  /\ Cardinality((DOMAIN memory.field_history) \cup ({key} \cap VALID_FIELDS)) <= MaxFields
  /\ LET r == MemorySet(memory, key, value, conf, clock)
     IN /\ memory' = r.mem
        /\ ret' = [op |-> "set", key |-> key, value |-> value, flag |-> conf,
                   ok |-> r.ok, contra |-> r.contra, pre |-> memory,
                   fresh |-> ret.fresh \ {key}, was_fresh |-> key \in ret.fresh,
                   action |-> "none", idx |-> 0, at |-> clock,
                   errors |-> ret.errors]
  /\ clock' = clock + 1
  /\ UNCHANGED <<ctx, pc, turn, failure_history>>

\* a caller invokes Memory.resolve_contradiction(field, use_new_value)
CallResolve(field, use_new) ==
  /\ clock <= MaxOps
  /\ LET r == MemoryResolve(memory, field, use_new, "")
     IN /\ memory' = r.mem
        /\ ret' = [op |-> "resolve", key |-> field, value |-> 0, flag |-> use_new,
                   ok |-> r.ok, contra |-> r.contra, pre |-> memory,
                   fresh |-> IF r.ok THEN ret.fresh \cup {field}
                                     ELSE ret.fresh \ {field},
                   was_fresh |-> field \in ret.fresh,
                   action |-> "none", idx |-> 0, at |-> clock,
                   errors |-> ret.errors]
  /\ clock' = clock + 1
  /\ UNCHANGED <<ctx, pc, turn, failure_history>>

NextMemory ==
  \/ \E key \in Keys : \E value \in WriteValues(key) : \E conf \in BOOLEAN :
        CallSet(key, value, conf)
  \/ \E field \in DOMAIN memory.field_history : \E use_new \in BOOLEAN :
        CallResolve(field, use_new)

SpecMemory == InitCommon /\ [][NextMemory]_vars

(***************************************************************************)
(* The turn context driven through its API.                                *)
(***************************************************************************)
\* a caller invokes StateContext.transition_to(new_state); the call returns
\* normally (ok) in every case, the method has no raise
CallTransition(new_state) ==
  /\ Len(ctx.state_history) < MaxTransitions
  /\ ctx' = TransitionTo(ctx, new_state, "", clock)
  /\ ret' = [NoRet EXCEPT !.op = "transition", !.key = new_state, !.ok = TRUE,
                          !.pre = ctx]
  /\ UNCHANGED <<memory, clock, pc, turn, failure_history>>

NextContext == \E new_state \in AgentStates : CallTransition(new_state)

SpecContext == InitCommon /\ [][NextContext]_vars

(***************************************************************************)
(* EligibilityEngineTool: one catalog entry against the known facts.       *)
(* In a rule NoneV stands for an absent key, in the facts for an unknown   *)
(* fact.  Gender 1 is "male", 2 is "female", 3 is "Male".                  *)
(***************************************************************************)
\* a or b of Python: a unless it is falsy
OrElse(a, b) == IF a # NoneV /\ a # 0 THEN a ELSE b

\* str.lower on a gender
Lower(g) == IF g = 3 THEN 1 ELSE g

\* a bound of the rules checked against a known or unknown fact: the key is
\* declared under one of its two spellings, the bound is the first spelling's
\* value or else the second's, and a comparison with None raises
CheckBound(first, second, fact, below) ==
  IF first = NoneV /\ second = NoneV THEN "skip"
  ELSE IF fact = NoneV THEN "unknown"
  ELSE IF OrElse(first, second) = NoneV THEN "raise"
  ELSE IF below /\ fact <= OrElse(first, second) THEN "met"
  ELSE IF ~below /\ fact >= OrElse(first, second) THEN "met"
  ELSE "issue"

\* EligibilityEngineTool._check_scheme_eligibility: the outcome of each check
\* in the order the method makes them
CriteriaOutcomes(rules, user_data) ==
  <<CheckBound(rules.age_min, rules.min_age, user_data.age, FALSE),
    CheckBound(rules.age_max, rules.max_age, user_data.age, TRUE),
    CheckBound(rules.income_max, rules.max_income, user_data.income, TRUE),
    IF rules.gender = NoneV THEN "skip"
    ELSE IF user_data.gender = NoneV THEN "unknown"
    ELSE IF Lower(user_data.gender) = Lower(rules.gender) THEN "met"
    ELSE "issue",
    IF ~rules.categories.declared THEN "skip"
    ELSE IF user_data.category = NoneV THEN "unknown"
    ELSE IF user_data.category \in rules.categories.allow THEN "met"
    ELSE "issue",
    IF rules.bpl # 1 THEN "skip"
    ELSE IF user_data.bpl = NoneV THEN "unknown"
    ELSE IF user_data.bpl # 0 THEN "met"
    ELSE "issue">>

\* EligibilityEngineTool._check_scheme_eligibility: the status it returns,
\* "raise" when it raises instead
CheckSchemeEligibility(rules, user_data) ==
  LET outcomes == {CriteriaOutcomes(rules, user_data)[i] : i \in 1..6}
  IN IF "raise" \in outcomes THEN "raise"
     ELSE IF "issue" \in outcomes THEN "not_eligible"
     ELSE IF "unknown" \in outcomes THEN "partial"
     ELSE "eligible"

\* eligibility rules of catalog entries
RuleChoices ==
  {r \in [age_min : {NoneV, 0, 18}, min_age : {NoneV, 60},
          age_max : {NoneV, 59}, max_age : {NoneV},
          income_max : {NoneV, 0, 100000}, max_income : {NoneV},
          gender : {NoneV, 3},
          categories : {[declared |-> FALSE, allow |-> {}],
                        [declared |-> TRUE, allow |-> {1}]},
          bpl : {NoneV, 0, 1}] :
     ~(r.age_min # NoneV /\ r.min_age # NoneV)}

\* facts handed to the tool
UserDataChoices ==
  [age : {NoneV, 17, 70}, income : {NoneV, 0, 200000}, gender : {NoneV, 1, 2},
   category : {NoneV, 1, 2}, bpl : {NoneV, 0, 1}]

\* the tool is about to look at a catalog entry, its three lists are empty
InitEligibility ==
  /\ memory = NewMemory(0)
  /\ clock = 1
  /\ \E rules \in RuleChoices : \E user_data \in UserDataChoices :
        ret = [NoRet EXCEPT !.op = "entry",
                            !.pre = [rules |-> rules, user_data |-> user_data,
                                     eligible |-> 0, partial |-> 0,
                                     not_eligible |-> 0]]
  /\ ctx = NewContext(NoInput, 0)
  /\ pc = "idle"
  /\ turn = NoTurn
  /\ failure_history = <<>>

\* EligibilityEngineTool.execute, one round of its loop over the catalog: the
\* entry is checked and counted in one of the three lists
CheckEntry ==
  /\ ret.op = "entry"
  /\ LET status == CheckSchemeEligibility(ret.pre.rules, ret.pre.user_data)
     IN ret' = [ret EXCEPT
                  !.op = "checked", !.key = status,
                  !.pre.eligible = IF status = "eligible" THEN 1 ELSE 0,
                  !.pre.partial = IF status = "partial" THEN 1 ELSE 0,
                  !.pre.not_eligible =
                     IF status \notin {"eligible", "partial", "raise"}
                     THEN 1 ELSE 0]
  /\ UNCHANGED <<memory, clock, ctx, pc, turn, failure_history>>

SpecEligibility == InitEligibility /\ [][CheckEntry]_vars

(***************************************************************************)
(* SchemeDatabase.search_schemes.  A catalog entry is described by what    *)
(* the query matches in it: its Hindi name, its English name, how many of  *)
(* its tags, its category.                                                 *)
(***************************************************************************)
NameWeight == 10

TagWeight == 5

CategoryWeight == 3

\* search_schemes: the score of one entry
Score(entry) ==
  (IF entry.name_hi THEN NameWeight ELSE 0)
    + (IF entry.name_en THEN NameWeight ELSE 0)
    + TagWeight * entry.tags
    + (IF entry.category THEN CategoryWeight ELSE 0)

\* list.sort(key=score, reverse=True): x is put behind every element whose
\* score is at least its own (the sort is stable)
RECURSIVE InsertByScore(_, _, _)
InsertByScore(sorted, x, catalog) ==
  IF sorted = <<>> THEN <<x>>
  ELSE IF Score(catalog[Head(sorted)]) >= Score(catalog[x])
       THEN <<Head(sorted)>> \o InsertByScore(Tail(sorted), x, catalog)
       ELSE <<x>> \o sorted

\* search_schemes on the first n entries: the positions of the results
RECURSIVE SearchSchemes(_, _)
SearchSchemes(catalog, n) ==
  IF n = 0 THEN <<>>
  ELSE IF Score(catalog[n]) > 0
       THEN InsertByScore(SearchSchemes(catalog, n - 1), n, catalog)
       ELSE SearchSchemes(catalog, n - 1)

\* what a query can match in an entry
EntryChoices ==
  [name_hi : BOOLEAN, name_en : BOOLEAN, tags : 0..MaxTags, category : BOOLEAN]

\* a catalog is loaded and a query is about to be made
InitSearch ==
  /\ memory = NewMemory(0)
  /\ clock = 1
  /\ \E n \in 1..MaxCatalog : \E catalog \in [1..n -> EntryChoices] :
        ret = [NoRet EXCEPT !.op = "query",
                            !.pre = [catalog |-> catalog, results |-> <<>>]]
  /\ ctx = NewContext(NoInput, 0)
  /\ pc = "idle"
  /\ turn = NoTurn
  /\ failure_history = <<>>

\* a caller invokes SchemeDatabase.search_schemes(query)
CallSearch ==
  /\ ret.op = "query"
  /\ ret' = [ret EXCEPT !.op = "searched",
                        !.pre.results =
                           SearchSchemes(ret.pre.catalog, Len(ret.pre.catalog))]
  /\ UNCHANGED <<memory, clock, ctx, pc, turn, failure_history>>

SpecSearch == InitSearch /\ [][CallSearch]_vars

(***************************************************************************)
(* FailureHandler: one instance per process, shared by every agent.        *)
(***************************************************************************)
\* FailureHandler._init_strategies: the action types of each category, in
\* order; a category without an entry has the empty list
RecoveryStrategies(failure_type) ==
  CASE failure_type = "stt_no_audio" -> <<"ask_retry", "offer_text">>
    [] failure_type = "stt_unclear" -> <<"ask_repeat", "ask_rephrase", "offer_text">>
    [] failure_type = "stt_partial" -> <<"confirm_partial">>
    [] failure_type = "missing_required_info" -> <<"ask_specific", "explain_why">>
    [] failure_type = "contradiction_detected" -> <<"ask_clarification">>
    [] failure_type = "input_empty" -> <<"prompt">>
    [] failure_type = "input_off_topic" -> <<"redirect">>
    [] failure_type = "tool_execution_error" -> <<"retry_tool", "use_fallback">>
    [] failure_type = "llm_error" -> <<"retry", "use_fallback_response">>
    [] failure_type = "system_error" -> <<"apologize_retry", "provide_alternative">>
    [] failure_type = "rate_limit" -> <<"wait">>
    [] OTHER -> <<>>

\* handle_failure looks at the last RecentSpan records
RecentSpan == 5

\* should_escalate: EscalationThreshold records younger than EscalationWindow
EscalationWindow == 300

EscalationThreshold == 5

RecentSame_AnyCategory(h, failure_type) ==
  Cardinality({i \in 1..Len(h) : i > Len(h) - RecentSpan})

\* handle_failure: the records of the same category among the last five
RecentSame(h, failure_type) ==
  Cardinality({i \in 1..Len(h) :
                 i > Len(h) - RecentSpan /\ h[i].failure_type = failure_type})

\* FailureHandler.handle_failure: the history after the call, the action type
\* returned and the index it was taken from (-1 for the default recovery)
HandleFailure(h, failure_type, now) ==
  LET attempts == RecentSame(h, failure_type)
      strategies == RecoveryStrategies(failure_type)
      attempt_idx == Min({attempts, Len(strategies) - 1})
  IN [history |-> Append(h, [failure_type |-> failure_type, timestamp |-> now,
                             recovery_attempts |-> attempts]),
      idx |-> IF strategies = <<>> THEN 0 - 1 ELSE attempt_idx,
      action |-> IF strategies = <<>> THEN "default"
                 ELSE strategies[attempt_idx + 1]]

\* FailureHandler.should_escalate
ShouldEscalate(h, now) ==
  Cardinality({i \in 1..Len(h) : now - h[i].timestamp < EscalationWindow})
    >= EscalationThreshold

\* FailureHandler._format_action: the fields the formatted message names;
\* only the first message of missing_required_info has the placeholder
FormatMissing(action, fields) ==
  IF action = "ask_specific" THEN fields ELSE <<>>

\* AgenticAgent._handle_error, its use of the handler: the escalation message
\* when should_escalate, else handle_failure(SYSTEM_ERROR)
ErrorRecovery(h, now) ==
  IF ShouldEscalate(h, now)
  THEN [history |-> h, idx |-> 0 - 1, action |-> "escalate"]
  ELSE HandleFailure(h, "system_error", now)

\* categories handed to handle_failure by the helpers: get_missing_info_response
\* and get_stt_error_response
FailureChoices == {"missing_required_info", "stt_unclear"}

\* seconds that pass between two observations of time.time()
TickStep == 150

\* a caller invokes FailureHandler.handle_failure(failure_type)
CallHandleFailure(failure_type) ==
  /\ Len(failure_history) < MaxRecords
  /\ LET r == HandleFailure(failure_history, failure_type, clock)
     IN /\ failure_history' = r.history
        /\ ret' = [NoRet EXCEPT !.op = "handle_failure", !.key = failure_type,
                                !.pre = failure_history, !.action = r.action,
                                !.idx = r.idx, !.at = clock,
                                !.errors = ret.errors]
  /\ UNCHANGED <<memory, clock, ctx, pc, turn>>

\* a turn of some agent of the process ends in the except branch of process:
\* AgenticAgent._handle_error
FailingTurn ==
  /\ Len(ret.errors) < MaxFailingTurns
  /\ ShouldEscalate(failure_history, clock) \/ Len(failure_history) < MaxRecords
  /\ LET r == ErrorRecovery(failure_history, clock)
     IN /\ failure_history' = r.history
        /\ ret' = [NoRet EXCEPT !.op = "handle_error", !.key = "system_error",
                                !.pre = failure_history, !.action = r.action,
                                !.idx = r.idx, !.at = clock,
                                !.errors = Append(ret.errors, clock)]
  /\ UNCHANGED <<memory, clock, ctx, pc, turn>>

\* time passes
Tick ==
  /\ clock < MaxTicks * TickStep
  /\ clock' = clock + TickStep
  /\ UNCHANGED <<memory, ret, ctx, pc, turn, failure_history>>

\* FailureHandler.get_stt_error_response: the category of an error type
SttFailureType(error_type, has_partial) ==
  IF error_type = "no_audio" THEN "stt_no_audio"
  ELSE IF error_type = "unclear" \/ error_type = "recognition" THEN "stt_unclear"
  ELSE IF error_type = "partial" /\ has_partial THEN "stt_partial"
  ELSE "stt_unclear"

\* error types handed to get_stt_error_response
SttErrorChoices == {"unclear", "timeout"}

\* a call of one of the helpers built on handle_failure
HelperCall(op, failure_type) ==
  /\ Len(failure_history) < MaxCalls
  /\ LET r == HandleFailure(failure_history, failure_type, clock)
     IN /\ failure_history' = r.history
        /\ ret' = [NoRet EXCEPT !.op = op, !.key = failure_type,
                                !.pre = failure_history, !.action = r.action,
                                !.idx = r.idx, !.at = clock]
  /\ UNCHANGED <<memory, clock, ctx, pc, turn>>

\* FailureHandler.get_missing_info_response
GetMissingInfoResponse ==
  HelperCall("get_missing_info_response", "missing_required_info")

\* FailureHandler.get_contradiction_response
GetContradictionResponse ==
  HelperCall("get_contradiction_response", "contradiction_detected")

\* FailureHandler.get_stt_error_response(error_type)
GetSttErrorResponse(error_type) ==
  HelperCall("get_stt_error_response", SttFailureType(error_type, FALSE))

NextHandler ==
  \/ GetMissingInfoResponse
  \/ GetContradictionResponse
  \/ \E error_type \in SttErrorChoices : GetSttErrorResponse(error_type)
  \/ Tick

SpecHandler == InitCommon /\ [][NextHandler]_vars

NextFailure ==
  \/ \E failure_type \in FailureChoices : CallHandleFailure(failure_type)
  \/ FailingTurn
  \/ Tick

SpecFailure == InitCommon /\ [][NextFailure]_vars

(***************************************************************************)
(* AgenticAgent: one turn of process, phase by phase.                      *)
(***************************************************************************)
HistoryLimit == 20

AddTurn_KeepsOldest(m, role, content, extracted_data, intent, tools_used, now) ==
  LET h == Append(m.history, [role |-> role, content |-> content,
                              timestamp |-> now,
                              extracted_data |-> extracted_data,
                              intent |-> intent, tools_used |-> tools_used])
  IN [m EXCEPT !.history = IF Len(h) > HistoryLimit
                           THEN SubSeq(h, 1, HistoryLimit)
                           ELSE h,
               !.last_activity = now]

\* Memory.add_turn
AddTurn(m, role, content, extracted_data, intent, tools_used, now) ==
  LET h == Append(m.history, [role |-> role, content |-> content,
                              timestamp |-> now,
                              extracted_data |-> extracted_data,
                              intent |-> intent, tools_used |-> tools_used])
  IN [m EXCEPT !.history = IF Len(h) > HistoryLimit
                           THEN SubSeq(h, Len(h) - HistoryLimit + 1, Len(h))
                           ELSE h,
               !.last_activity = now]

\* a session that has recorded k turns, the i-th at time i
InitHistory ==
  /\ \E k \in 0..HistoryLimit :
        /\ memory = [NewMemory(0) EXCEPT
                       !.history =
                          [i \in 1..k |->
                             [role |-> IF i % 2 = 1 THEN "user" ELSE "assistant",
                              content |-> "text", timestamp |-> i,
                              extracted_data |-> EmptyDict, intent |-> "none",
                              tools_used |-> <<>>]],
                       !.last_activity = k]
        /\ clock = k + 1
  /\ ret = NoRet
  /\ ctx = NewContext(NoInput, 0)
  /\ pc = "idle"
  /\ turn = NoTurn
  /\ failure_history = <<>>

\* a caller invokes Memory.add_turn(role, content); ret.value counts the calls
CallAddTurn(role) ==
  /\ ret.value < MaxAdds
  /\ memory' = AddTurn(memory, role, "text", EmptyDict, "none", <<>>, clock)
  /\ ret' = [NoRet EXCEPT !.op = "add_turn", !.key = role,
                          !.value = ret.value + 1, !.pre = memory, !.at = clock]
  /\ clock' = clock + 1
  /\ UNCHANGED <<ctx, pc, turn, failure_history>>

NextHistory == \E role \in {"user", "assistant"} : CallAddTurn(role)

SpecHistory == InitHistory /\ [][NextHistory]_vars

\* Python truth value of a stored fact
Truthy(v) == v # NoneV /\ v # 0

\* dict.get(key) followed by a truth test
GetTruthy(d, k) == Truthy(DictGet(d, k, NoneV))

Merge_StoredWins(a, b) ==
  [k \in (DOMAIN a) \cup (DOMAIN b) |-> IF k \in DOMAIN a THEN a[k] ELSE b[k]]

\* {**a, **b}
Merge(a, b) ==
  [k \in (DOMAIN a) \cup (DOMAIN b) |-> IF k \in DOMAIN b THEN b[k] ELSE a[k]]

\* elements of a list
Range(seq) == {seq[i] : i \in 1..Len(seq)}

\* [x for x in seq if x in keep]
RECURSIVE Filter(_, _)
Filter(seq, keep) ==
  IF seq = <<>> THEN <<>>
  ELSE IF Head(seq) \in keep
       THEN <<Head(seq)>> \o Filter(Tail(seq), keep)
       ELSE Filter(Tail(seq), keep)

\* UserDataExtractorTool.execute: the order in which it fills its result
ExtractOrder ==
  <<"age", "income", "gender", "category", "bpl", "area", "occupation",
    "disability">>

\* AgenticAgent._plan, the loop that writes the extracted facts
RECURSIVE WriteExtracted(_, _, _, _)
WriteExtracted(m, extracted, keys, now) ==
  IF keys = <<>> THEN m
  ELSE WriteExtracted(MemorySet(m, Head(keys), extracted[Head(keys)], FALSE, now).mem,
                      extracted, Tail(keys), now)

AnalyzeIntent_InfoBeforeDocument(kw, short, extracted) ==
  IF "greeting" \in kw /\ short THEN "greeting"
  ELSE IF "farewell" \in kw THEN "farewell"
  ELSE IF "eligibility" \in kw THEN "eligibility_check"
  ELSE IF "scheme" \in kw THEN "scheme_inquiry"
  ELSE IF "application" \in kw THEN "application_help"
  ELSE IF extracted # EmptyDict THEN "provide_info"
  ELSE IF "document" \in kw THEN "document_info"
  ELSE IF "correction" \in kw THEN "correction"
  ELSE "general_question"

\* AgenticAgent._analyze_intent
AnalyzeIntent(kw, short, extracted) ==
  IF "greeting" \in kw /\ short THEN "greeting"
  ELSE IF "farewell" \in kw THEN "farewell"
  ELSE IF "eligibility" \in kw THEN "eligibility_check"
  ELSE IF "scheme" \in kw THEN "scheme_inquiry"
  ELSE IF "application" \in kw THEN "application_help"
  ELSE IF "document" \in kw THEN "document_info"
  ELSE IF extracted # EmptyDict THEN "provide_info"
  ELSE IF "correction" \in kw THEN "correction"
  ELSE "general_question"

\* AgenticAgent._select_tools_for_intent: (required tools, required facts)
SelectToolsForIntent(intent) ==
  CASE intent = "greeting" -> <<<<>>, <<>>>>
    [] intent = "farewell" -> <<<<>>, <<>>>>
    [] intent = "eligibility_check" ->
         <<<<"eligibility_engine", "scheme_retrieval">>, <<"age", "income">>>>
    [] intent = "scheme_inquiry" -> <<<<"scheme_retrieval">>, <<>>>>
    [] intent = "application_help" ->
         <<<<"scheme_retrieval", "document_checker">>, <<>>>>
    [] intent = "document_info" ->
         <<<<"document_checker", "scheme_retrieval">>, <<>>>>
    [] intent = "provide_info" -> <<<<"eligibility_engine">>, <<>>>>
    [] intent = "general_question" -> <<<<"scheme_retrieval">>, <<>>>>
    [] intent = "correction" -> <<<<>>, <<>>>>
    [] intent = "clarification" -> <<<<>>, <<>>>>
    [] OTHER -> <<<<"scheme_retrieval">>, <<>>>>

\* ExecutionPlan with its __post_init__
NewPlan(intent, required_tools, required_info, available_info) ==
  [present |-> TRUE,
   intent |-> intent,
   required_tools |-> required_tools,
   required_info |-> required_info,
   available_info |-> available_info,
   missing_info |-> Filter(required_info,
                           Range(required_info) \ DOMAIN available_info),
   steps |-> required_tools]

\* AgenticAgent._extract_scheme_reference: the scheme a tool call refers to
\* and the session after the method has noted it
SchemeReference(m, input) ==
  IF input.scheme # "none"
  THEN [mem |-> [m EXCEPT !.current_scheme = input.scheme], id |-> input.scheme]
  ELSE [mem |-> m, id |-> "none"]

\* AgenticAgent._prepare_tool_inputs: the session after the call and the
\* scheme id handed to the tool; the other inputs are plan.available_info
PrepareToolInputs(m, tool_name, input) ==
  IF tool_name = "scheme_retrieval" THEN SchemeReference(m, input)
  ELSE IF tool_name = "document_checker" THEN [mem |-> m, id |-> m.current_scheme]
  ELSE [mem |-> m, id |-> "none"]

\* what the catalog answers to one tool call: "hit" when it holds a scheme
\* the facts are eligible for, resp. the scheme asked for, "miss" when it
\* does not, "raise" when the tool's walk over the catalog raises
CatalogAnswers == {"hit", "miss", "raise"}

\* EligibilityEngineTool.execute
EligibilityEngine(facts, answer) ==
  IF facts = EmptyDict \/ \A k \in DOMAIN facts : facts[k] = NoneV
  THEN [status |-> "needs_info", data |-> "all_schemes",
        missing_fields |-> <<"age", "income">>]
  ELSE [status |-> IF answer = "hit" THEN "success" ELSE "partial",
        data |-> IF answer = "hit" THEN "eligible" ELSE "none_eligible",
        missing_fields |->
          Filter(<<"age", "income">>,
                 {k \in {"age", "income"} : DictGet(facts, k, NoneV) = NoneV})]

\* SchemeRetrievalTool.execute
SchemeRetrieval(scheme_id, answer) ==
  [status |-> "success",
   data |-> IF scheme_id # "none" /\ answer = "hit" THEN "details" ELSE "schemes",
   missing_fields |-> <<>>]

\* DocumentCheckerTool.execute
DocumentChecker(scheme_id, answer) ==
  IF scheme_id = "none"
  THEN [status |-> "needs_info", data |-> "none", missing_fields |-> <<"scheme_id">>]
  ELSE IF answer # "hit"
       THEN [status |-> "error", data |-> "none", missing_fields |-> <<>>]
       ELSE [status |-> "success", data |-> "documents", missing_fields |-> <<>>]

\* ToolRegistry.execute for the tools of a plan
ToolExecute(tool_name, facts, scheme_id, answer) ==
  IF tool_name = "eligibility_engine" THEN EligibilityEngine(facts, answer)
  ELSE IF tool_name = "scheme_retrieval" THEN SchemeRetrieval(scheme_id, answer)
  ELSE IF tool_name = "document_checker" THEN DocumentChecker(scheme_id, answer)
  ELSE [status |-> "error", data |-> "none", missing_fields |-> <<>>]

NewExecutionResult_PartialFails(tool_name, r) ==
  [tool_name |-> tool_name,
   success |-> r.status = "success",
   data |-> r.data,
   error |-> r.status = "error",
   needs_more_info |-> r.missing_fields]

\* AgenticAgent._execute: the ExecutionResult built from a ToolResult
NewExecutionResult(tool_name, r) ==
  [tool_name |-> tool_name,
   success |-> r.status \in {"success", "partial"},
   data |-> r.data,
   error |-> r.status = "error",
   needs_more_info |-> r.missing_fields]

\* AgenticAgent._evaluate: the missing fields after the availability filter
ActuallyMissing(plan, results) ==
  LET all_missing ==
        UNION {Range(results[i].needs_more_info) : i \in 1..Len(results)}
          \cup Range(plan.missing_info)
  IN {f \in all_missing :
        ~(f \in {"age", "income", "gender", "category"}
            /\ GetTruthy(plan.available_info, f))}

\* AgenticAgent._evaluate: quality score, in hundredths
QualityScore(plan, results, missing) ==
  IF results = <<>>
  THEN 50
  ELSE LET succeeded == Cardinality({i \in 1..Len(results) : results[i].success})
           required == IF Len(plan.required_info) > 1
                       THEN Len(plan.required_info) ELSE 1
       IN (60 * succeeded) \div Len(results)
            + 40 - (40 * Cardinality(missing)) \div required

NextAction_ClarificationFirst(has_contradiction, needs_clarification, any_failed, c) ==
  IF needs_clarification THEN "ask_user"
  ELSE IF has_contradiction THEN "ask_clarification"
  ELSE IF any_failed /\ CanRetry(c) THEN "re-execute"
  ELSE "respond"

NextAction_NeverRetries(has_contradiction, needs_clarification, any_failed, c) ==
  IF has_contradiction THEN "ask_clarification"
  ELSE IF needs_clarification THEN "ask_user"
  ELSE "respond"

\* AgenticAgent._evaluate: next action
NextAction(has_contradiction, needs_clarification, any_failed, c) ==
  IF has_contradiction THEN "ask_clarification"
  ELSE IF needs_clarification THEN "ask_user"
  ELSE IF any_failed /\ CanRetry(c) THEN "re-execute"
  ELSE "respond"

\* AgenticAgent._evaluate (after its transition to checking_completeness)
Evaluate(plan, results, m, c) ==
  LET failed == {i \in 1..Len(results) : ~results[i].success}
      missing == ActuallyMissing(plan, results)
      has_contradiction == HasPending(m)
      needs_clarification ==
        missing # {} /\ plan.intent \in {"eligibility_check", "application_help"}
  IN [present |-> TRUE,
      is_complete |-> failed = {} /\ missing = {} /\ ~has_contradiction,
      quality_score |-> QualityScore(plan, results, missing),
      missing |-> missing,
      needs_clarification |-> needs_clarification,
      contradiction_detected |-> has_contradiction,
      contradiction_details |->
        IF has_contradiction
        THEN [field |-> GetPending(m)[1].field,
              old_value |-> GetPending(m)[1].old_value,
              new_value |-> GetPending(m)[1].new_value]
        ELSE NoEvaluation.contradiction_details,
      next_action |-> NextAction(has_contradiction, needs_clarification,
                                 failed # {}, c)]

\* AgenticAgent._generate_response: the kind of reply it builds
GenerateResponse(plan, results, evaluation) ==
  IF plan.intent = "greeting" THEN "greeting"
  ELSE IF plan.intent = "farewell" THEN "farewell"
  ELSE IF evaluation.needs_clarification /\ results # <<>> THEN "partial_with_question"
  ELSE "llm"

\* AgenticAgent._generate_clarification_request: the handler's history after
\* the call, the action behind the reply and the fields the reply asks for
GenerateClarificationRequest(plan, h, now) ==
  LET actually_missing ==
        Filter(plan.missing_info,
               {f \in Range(plan.missing_info) :
                  ~(f \in {"age", "income"} /\ GetTruthy(plan.available_info, f))})
      r == HandleFailure(h, "missing_required_info", now)
  IN IF actually_missing = <<>>
     THEN [history |-> h, action |-> "checking", asked |-> <<>>]
     ELSE [history |-> r.history, action |-> r.action,
           asked |-> FormatMissing(r.action, actually_missing)]

\* AgenticAgent._generate_contradiction_response
GenerateContradictionResponse(h, now) ==
  HandleFailure(h, "contradiction_detected", now)

\* utterances offered to a turn
ExtractChoices ==
  {EmptyDict, [age |-> 45], [age |-> 70], [age |-> 45, income |-> 200000],
   [age |-> 70, income |-> 200000], [gender |-> 2]}

KeywordChoices ==
  {{}, {"greeting"}, {"farewell"}, {"eligibility"}, {"scheme"}, {"application"},
   {"document"}, {"correction"}}

SchemeChoices == {"none", "pm-kisan"}

Inputs ==
  [extracted : ExtractChoices, kw : KeywordChoices, short : BOOLEAN,
   scheme : SchemeChoices, says : {"none", "old", "new"}]

\* a fact is confirmed on the session before its first turn:
\* Memory.set(key, value, confirmed=True)
ConfirmFact(key, value) ==
  /\ pc = "idle"
  /\ turn.n = 0
  /\ Cardinality(DOMAIN memory.data) + Len(failure_history) < MaxSeeds
  /\ key \notin DOMAIN memory.data
  /\ LET r == MemorySet(memory, key, value, TRUE, clock)
     IN /\ memory' = r.mem
        /\ ret' = [op |-> "set", key |-> key, value |-> value, flag |-> TRUE,
                   ok |-> r.ok, contra |-> r.contra, pre |-> memory,
                   fresh |-> ret.fresh \ {key}, was_fresh |-> key \in ret.fresh,
                   action |-> "none", idx |-> 0, at |-> clock,
                   errors |-> ret.errors]
  /\ clock' = clock + 1
  /\ UNCHANGED <<ctx, pc, turn, failure_history>>

\* a turn of another session of the same process ends in a clarification
\* request: its agent holds the handler get_failure_handler returns, the one
\* instance of the process, and records a failure in it
OtherSessionClarification ==
  /\ pc = "idle"
  /\ turn.n = 0
  /\ Cardinality(DOMAIN memory.data) + Len(failure_history) < MaxSeeds
  /\ failure_history' =
        HandleFailure(failure_history, "missing_required_info", clock).history
  /\ UNCHANGED <<memory, clock, ret, ctx, pc, turn>>

\* AgenticAgent.process, entry: the context of the turn is constructed.
\* The word count only matters next to a greeting word, and a choice between
\* the values of a contradiction only when one is pending.
StartTurn(input) ==
  /\ pc = "idle"
  /\ turn.n < MaxTurns
  /\ input.short => "greeting" \in input.kw
  /\ input.says # "none" => HasPending(memory)
  /\ ctx' = NewContext(input, clock)
  /\ turn' = [NoTurn EXCEPT !.n = turn.n + 1, !.start = memory,
                           !.failures = failure_history]
  /\ pc' = "pending"
  /\ UNCHANGED <<memory, clock, ret, failure_history>>

HandlePending_Newest ==
  /\ pc = "pending"
  /\ IF HasPending(memory) /\ ctx.current_input.says # "none"
     THEN /\ memory' = MemoryResolve(memory,
                                     GetPending(memory)[Len(memory.pending)].field,
                                     ctx.current_input.says = "new", "input").mem
          /\ turn' = [turn EXCEPT !.reply = IF ctx.current_input.says = "new"
                                            THEN "used_new" ELSE "kept_old"]
          /\ pc' = "idle"
     ELSE /\ pc' = "plan"
          /\ UNCHANGED <<memory, turn>>
  /\ UNCHANGED <<clock, ret, ctx, failure_history>>

\* AgenticAgent.process, the check for pending contradictions, with
\* _handle_contradiction_resolution
HandlePending ==
  /\ pc = "pending"
  /\ IF HasPending(memory) /\ ctx.current_input.says # "none"
     THEN /\ memory' = MemoryResolve(memory, GetPending(memory)[1].field,
                                     ctx.current_input.says = "new", "input").mem
          /\ turn' = [turn EXCEPT !.reply = IF ctx.current_input.says = "new"
                                            THEN "used_new" ELSE "kept_old"]
          /\ pc' = "idle"
     ELSE /\ pc' = "plan"
          /\ UNCHANGED <<memory, turn>>
  /\ UNCHANGED <<clock, ret, ctx, failure_history>>

\* AgenticAgent.process, phase 1, with _plan
Plan ==
  /\ pc = "plan"
  /\ LET input == ctx.current_input
         c1 == TransitionTo(ctx, "planning", "Starting planning phase", clock)
         c2 == TransitionTo(c1, "analyzing_intent", "", clock)
         extracted == input.extracted
         m == WriteExtracted(memory, extracted,
                             Filter(ExtractOrder, DOMAIN extracted), clock)
         intent == AnalyzeIntent(input.kw, input.short, extracted)
         c3 == TransitionTo(c2, "selecting_tools", "", clock)
         sel == SelectToolsForIntent(intent)
         plan == NewPlan(intent, sel[1], sel[2], Merge(m.data, extracted))
     IN /\ memory' = m
        /\ ctx' = [c3 EXCEPT !.current_plan = plan]
  /\ clock' = clock + 1
  /\ pc' = "execute"
  /\ UNCHANGED <<ret, turn, failure_history>>

\* AgenticAgent.process, phase 2: entry of _execute
Execute ==
  /\ pc = "execute"
  /\ ctx' = TransitionTo(ctx, "executing", "Starting execution phase", clock)
  /\ pc' = IF ctx.current_plan.steps = <<>> THEN "evaluate" ELSE "tool"
  /\ UNCHANGED <<memory, clock, ret, turn, failure_history>>

CallTool_NoStop(answer) ==
  /\ pc = "tool"
  /\ LET plan == ctx.current_plan
         tool_name == plan.steps[Len(ctx.tools_called) + 1]
         c1 == TransitionTo(ctx, "calling_tool", "Calling tool", clock)
         prep == PrepareToolInputs(memory, tool_name, ctx.current_input)
         r == ToolExecute(tool_name, plan.available_info, prep.id, answer)
         c2 == [c1 EXCEPT !.tools_called = Append(@, tool_name),
                          !.execution_results =
                             Append(@, NewExecutionResult(tool_name, r))]
     IN /\ memory' = prep.mem
        /\ IF answer = "raise"
           THEN /\ ctx' = [c1 EXCEPT !.execution_results = <<>>]
                /\ pc' = "error"
           ELSE /\ ctx' = c2
                /\ pc' = IF Len(c2.tools_called) = Len(plan.steps)
                         THEN "evaluate" ELSE "tool"
  /\ UNCHANGED <<clock, ret, turn, failure_history>>

\* AgenticAgent._execute, one round of its loop
CallTool(answer) ==
  /\ pc = "tool"
  /\ LET plan == ctx.current_plan
         tool_name == plan.steps[Len(ctx.tools_called) + 1]
         c1 == TransitionTo(ctx, "calling_tool", "Calling tool", clock)
         prep == PrepareToolInputs(memory, tool_name, ctx.current_input)
         r == ToolExecute(tool_name, plan.available_info, prep.id, answer)
         \* the results gathered so far reach the context when _execute
         \* returns; when it raises they are dropped with its frame
         c2 == [c1 EXCEPT !.tools_called = Append(@, tool_name),
                          !.execution_results =
                             Append(@, NewExecutionResult(tool_name, r))]
     IN /\ memory' = prep.mem
        /\ IF answer = "raise"
           THEN /\ ctx' = [c1 EXCEPT !.execution_results = <<>>]
                /\ pc' = "error"
           ELSE IF r.status = "needs_info"
           THEN /\ ctx' = TransitionTo(c2, "waiting_for_info", "", clock)
                /\ pc' = "evaluate"
           ELSE /\ ctx' = c2
                /\ pc' = IF Len(c2.tools_called) = Len(plan.steps)
                         THEN "evaluate" ELSE "tool"
  /\ UNCHANGED <<clock, ret, turn, failure_history>>

\* AgenticAgent.process, phase 3, with _evaluate and the two early replies
EvaluateTurn ==
  /\ pc = "evaluate"
  /\ LET c1 == TransitionTo(ctx, "evaluating", "Starting evaluation phase", clock)
         c2 == TransitionTo(c1, "checking_completeness", "", clock)
         evaluation == Evaluate(ctx.current_plan, ctx.execution_results, memory, c2)
         c3 == [c2 EXCEPT !.evaluation = evaluation]
     IN IF evaluation.contradiction_detected
        THEN LET r == GenerateContradictionResponse(failure_history, clock)
             IN /\ ctx' = TransitionTo(c3, "handling_contradiction", "", clock)
                /\ failure_history' = r.history
                /\ turn' = [turn EXCEPT !.reply = "contradiction_question",
                                        !.action = r.action]
                /\ pc' = "idle"
        ELSE IF evaluation.needs_clarification
        THEN LET r == GenerateClarificationRequest(ctx.current_plan,
                                                   failure_history, clock)
             IN /\ ctx' = TransitionTo(c3, "clarification_needed", "", clock)
                /\ failure_history' = r.history
                /\ turn' = [turn EXCEPT !.reply = "clarification_request",
                                        !.action = r.action, !.asked = r.asked]
                /\ pc' = "idle"
        ELSE /\ ctx' = c3
             /\ pc' = "respond"
             /\ UNCHANGED <<turn, failure_history>>
  /\ UNCHANGED <<memory, clock, ret>>

\* AgenticAgent.process, phase 4 and the closure of the turn
Respond ==
  /\ pc = "respond"
  /\ LET plan == ctx.current_plan
         c1 == TransitionTo(ctx, "generating_response", "", clock)
         response == GenerateResponse(plan, ctx.execution_results, ctx.evaluation)
         m1 == AddTurn(memory, "user", "input", plan.available_info, plan.intent,
                       ctx.tools_called, clock)
         m2 == AddTurn(m1, "assistant", response, EmptyDict, "none",
                       ctx.tools_called, clock)
     IN /\ memory' = m2
        /\ ctx' = TransitionTo(c1, "complete", "", clock)
        /\ turn' = [turn EXCEPT !.reply = response]
  /\ clock' = clock + 1
  /\ pc' = "idle"
  /\ UNCHANGED <<ret, failure_history>>

HandleError_NoCount ==
  /\ pc = "error"
  /\ ctx' = TransitionTo(ctx, "error_recovery", "exception", clock)
  /\ LET r == ErrorRecovery(failure_history, clock)
     IN /\ failure_history' = r.history
        /\ turn' = [turn EXCEPT !.reply = "error", !.action = r.action]
  /\ pc' = "idle"
  /\ UNCHANGED <<memory, clock, ret>>

\* AgenticAgent.process, the except branch, with _handle_error
HandleError ==
  /\ pc = "error"
  /\ ctx' = [TransitionTo(ctx, "error_recovery", "exception", clock)
               EXCEPT !.error_count = @ + 1]
  /\ LET r == ErrorRecovery(failure_history, clock)
     IN /\ failure_history' = r.history
        /\ turn' = [turn EXCEPT !.reply = "error", !.action = r.action]
  /\ pc' = "idle"
  /\ UNCHANGED <<memory, clock, ret>>

NextTurn ==
  \/ \E key \in {"age", "income"} : \E value \in WriteValues(key) :
        ConfirmFact(key, value)
  \/ OtherSessionClarification
  \/ \E input \in Inputs : StartTurn(input)
  \/ HandlePending
  \/ Plan
  \/ Execute
  \/ \E answer \in CatalogAnswers : CallTool(answer)
  \/ EvaluateTurn
  \/ Respond
  \/ HandleError

Spec == InitCommon /\ [][NextTurn]_vars

\* AgenticAgent.process, the try block: the step about to run (the check for
\* pending contradictions, _plan, _evaluate or _generate_response) raises
\* before it has changed the session; a raise inside _execute is CallTool
RaisingSteps == {"pending", "plan", "evaluate", "respond"}

Raise ==
  /\ pc \in RaisingSteps
  /\ pc' = "error"
  /\ UNCHANGED <<memory, clock, ret, ctx, turn, failure_history>>

\* utterances offered to the turns of a session that meets raising steps
RecoveryInputs ==
  {input \in Inputs :
     /\ input.extracted \in {EmptyDict, [age |-> 45, income |-> 200000]}
     /\ input.kw \in {{}, {"eligibility"}, {"document"}}
     /\ ~input.short
     /\ input.says = "none"}

\* AgenticAgent.process, entry, on a session that is called again after a
\* turn that ended in _handle_error: the turn after a failed one is not
\* counted against MaxTurns
StartTurnOrRetry(input) ==
  /\ pc = "idle"
  /\ turn.n < MaxTurns \/ (turn.n = MaxTurns /\ turn.reply = "error")
  /\ ctx' = NewContext(input, clock)
  /\ turn' = [NoTurn EXCEPT !.n = turn.n + 1, !.start = memory,
                           !.failures = failure_history]
  /\ pc' = "pending"
  /\ UNCHANGED <<memory, clock, ret, failure_history>>

NextRecovery ==
  \/ \E input \in RecoveryInputs : StartTurnOrRetry(input)
  \/ HandlePending
  \/ Plan
  \/ Execute
  \/ \E answer \in CatalogAnswers : CallTool(answer)
  \/ EvaluateTurn
  \/ Respond
  \/ HandleError
  \/ Raise

SpecRecovery == InitCommon /\ [][NextRecovery]_vars

(***************************************************************************)
(* resolve_contradiction on sessions with several pending contradictions.  *)
(***************************************************************************)
\* Memory.set calls that build a session: (key, value, confirmed)
WriteChoices ==
  {<<"age", 45, TRUE>>, <<"age", 70, FALSE>>,
   <<"income", 100000, TRUE>>, <<"income", 200000, FALSE>>}

\* the session after the calls of a list, one call per tick from now on
RECURSIVE ApplyWrites(_, _, _)
ApplyWrites(m, writes, now) ==
  IF writes = <<>> THEN m
  ELSE ApplyWrites(MemorySet(m, Head(writes)[1], Head(writes)[2],
                             Head(writes)[3], now).mem,
                   Tail(writes), now + 1)

\* lists of up to MaxOps calls
WriteLists == UNION {[1..n -> WriteChoices] : n \in 0..MaxOps}

\* a session that has taken a list of Memory.set calls
InitResolve ==
  /\ \E writes \in WriteLists :
        /\ memory = ApplyWrites(NewMemory(0), writes, 1)
        /\ clock = Len(writes) + 1
  /\ ret = NoRet
  /\ ctx = NewContext(NoInput, 0)
  /\ pc = "idle"
  /\ turn = NoTurn
  /\ failure_history = <<>>

\* a caller invokes Memory.resolve_contradiction(field, use_new_value); the
\* calls stop after one that found nothing to resolve
ResolveCall(field, use_new) ==
  /\ ret.op = "resolve" => ret.ok
  /\ LET r == MemoryResolve(memory, field, use_new, "")
     IN /\ memory' = r.mem
        /\ ret' = [NoRet EXCEPT !.op = "resolve", !.key = field,
                                !.flag = use_new, !.ok = r.ok,
                                !.contra = r.contra, !.pre = memory,
                                !.at = clock]
  /\ clock' = clock + 1
  /\ UNCHANGED <<ctx, pc, turn, failure_history>>

NextResolve ==
  \E field \in {"age", "income", "gender"} : \E use_new \in BOOLEAN :
     ResolveCall(field, use_new)

SpecResolve == InitResolve /\ [][NextResolve]_vars

(***************************************************************************)
(* A fresh session driven by turns only.                                   *)
(***************************************************************************)
\* utterances offered to the session: they state an age or none, and may
\* choose between the values of a contradiction when one is pending
FreshInputs ==
  {input \in Inputs :
     /\ input.extracted \in {EmptyDict, [age |-> 45], [age |-> 70]}
     /\ input.kw \in {{}, {"eligibility"}}
     /\ ~input.short
     /\ input.scheme = "none"}

\* AgenticAgent.process, entry, on a session that takes up to MaxFreshTurns
\* turns
StartFreshTurn(input) ==
  /\ pc = "idle"
  /\ turn.n < MaxFreshTurns
  /\ input.says # "none" => HasPending(memory)
  /\ ctx' = NewContext(input, clock)
  /\ turn' = [NoTurn EXCEPT !.n = turn.n + 1, !.start = memory,
                           !.failures = failure_history]
  /\ pc' = "pending"
  /\ UNCHANGED <<memory, clock, ret, failure_history>>

NextFresh ==
  \/ \E input \in FreshInputs : StartFreshTurn(input)
  \/ HandlePending
  \/ Plan
  \/ Execute
  \/ \E answer \in CatalogAnswers : CallTool(answer)
  \/ EvaluateTurn
  \/ Respond
  \/ HandleError

SpecFresh == InitCommon /\ [][NextFresh]_vars

(***************************************************************************)
(* Intent classification called on its own.                                *)
(***************************************************************************)
\* the keyword families of _analyze_intent
KeywordFamilies ==
  {"greeting", "farewell", "eligibility", "scheme", "application", "document",
   "correction"}

\* an utterance about to be classified: the families it has a word of,
\* whether it has fewer than five words, and what the extractor found in it
InitIntent ==
  /\ memory = NewMemory(0)
  /\ clock = 1
  /\ \E kw \in SUBSET KeywordFamilies : \E short \in BOOLEAN :
     \E extracted \in {EmptyDict, [age |-> 45]} :
        ret = [NoRet EXCEPT !.op = "utterance",
                            !.pre = [kw |-> kw, short |-> short,
                                     extracted |-> extracted]]
  /\ ctx = NewContext(NoInput, 0)
  /\ pc = "idle"
  /\ turn = NoTurn
  /\ failure_history = <<>>

\* AgenticAgent._analyze_intent(user_input, extracted_data)
CallAnalyzeIntent ==
  /\ ret.op = "utterance"
  /\ ret' = [ret EXCEPT !.op = "classified",
                        !.key = AnalyzeIntent(ret.pre.kw, ret.pre.short,
                                              ret.pre.extracted)]
  /\ UNCHANGED <<memory, clock, ctx, pc, turn, failure_history>>

SpecIntent == InitIntent /\ [][CallAnalyzeIntent]_vars

(***************************************************************************)
(* Turns of a session that has contradictions pending.                     *)
(***************************************************************************)
\* rejected writes that queue a contradiction on a session whose age and
\* income are confirmed
RejectedChoices == {<<"age", 70, FALSE>>, <<"income", 200000, FALSE>>}

\* the queues a session can have built up: up to MaxPending rejected writes
PendingQueues == UNION {[1..n -> RejectedChoices] : n \in 0..MaxPending}

\* utterances offered to such a session
PendingInputs ==
  {input \in Inputs :
     /\ input.extracted \in {EmptyDict, [age |-> 70]}
     /\ input.kw \in {{}, {"eligibility"}}
     /\ ~input.short
     /\ input.scheme = "none"}

\* a session with confirmed age and income that has taken the rejected
\* writes of a queue
InitPending ==
  /\ \E queue \in PendingQueues :
        /\ memory = ApplyWrites(NewMemory(0),
                                <<<<"age", 45, TRUE>>, <<"income", 100000, TRUE>>>>
                                  \o queue, 1)
        /\ clock = Len(queue) + 3
  /\ ret = NoRet
  /\ ctx = NewContext(NoInput, 0)
  /\ pc = "idle"
  /\ turn = NoTurn
  /\ failure_history = <<>>

NextPending ==
  \/ \E input \in PendingInputs : StartTurn(input)
  \/ HandlePending
  \/ Plan
  \/ Execute
  \/ \E answer \in CatalogAnswers : CallTool(answer)
  \/ EvaluateTurn
  \/ Respond
  \/ HandleError

SpecPending == InitPending /\ [][NextPending]_vars

(***************************************************************************)
(* Turns whose reply comes from the text-generation service.               *)
(***************************************************************************)
\* what the text-generation call meets: a text, a service error or timeout
\* (an exception inside generate_content), no client, or an empty text
LlmOutcomes == {"text", "error", "unavailable", "empty"}

\* AIService.generate_response: the kind of string it returns; an exception
\* and a missing client both give the canned _fallback_response, an empty
\* text is returned stripped
AiGenerateResponse(outcome) ==
  CASE outcome = "text" -> "llm"
    [] outcome = "empty" -> "llm_empty"
    [] OTHER -> "llm_fallback"

\* AgenticAgent.process, phase 4 and the closure of the turn, with the
\* outcome of the call _generate_llm_response makes
RespondWith(outcome) ==
  /\ pc = "respond"
  /\ LET plan == ctx.current_plan
         c1 == TransitionTo(ctx, "generating_response", "", clock)
         kind == GenerateResponse(plan, ctx.execution_results, ctx.evaluation)
         response == IF kind = "llm" THEN AiGenerateResponse(outcome) ELSE kind
         m1 == AddTurn(memory, "user", "input", plan.available_info, plan.intent,
                       ctx.tools_called, clock)
         m2 == AddTurn(m1, "assistant", response, EmptyDict, "none",
                       ctx.tools_called, clock)
     IN /\ memory' = m2
        /\ ctx' = TransitionTo(c1, "complete", "", clock)
        /\ turn' = [turn EXCEPT !.reply = response]
  /\ clock' = clock + 1
  /\ pc' = "idle"
  /\ UNCHANGED <<ret, failure_history>>

NextResponse ==
  \/ \E input \in RecoveryInputs : StartTurnOrRetry(input)
  \/ HandlePending
  \/ Plan
  \/ Execute
  \/ \E answer \in CatalogAnswers : CallTool(answer)
  \/ EvaluateTurn
  \/ \E outcome \in LlmOutcomes : RespondWith(outcome)
  \/ HandleError

SpecResponse == InitCommon /\ [][NextResponse]_vars

(***************************************************************************)
(* The tool registry called on its own.                                    *)
(***************************************************************************)
\* ToolRegistry._init_tools: the tools registered with and without a catalog
RegisteredTools(has_db) ==
  IF has_db
  THEN {"eligibility_engine", "scheme_retrieval", "document_checker",
        "application_status", "user_data_extractor"}
  ELSE {"application_status", "user_data_extractor"}

\* ToolSchema.required_inputs of each tool
RequiredInputs(tool_name) ==
  CASE tool_name = "application_status" -> <<"application_id">>
    [] tool_name = "document_checker" -> <<"scheme_id">>
    [] tool_name = "user_data_extractor" -> <<"text">>
    [] OTHER -> <<>>

\* ApplicationStatusTool.execute; the answer says whether the mock store
\* holds the application
ApplicationStatus(inputs, answer) ==
  IF "application_id" \notin DOMAIN inputs
  THEN [status |-> "needs_info", data |-> "none",
        missing_fields |-> <<"application_id">>]
  ELSE [status |-> IF answer = "hit" THEN "success" ELSE "partial",
        data |-> IF answer = "hit" THEN "application" ELSE "not_found",
        missing_fields |-> <<>>]

\* UserDataExtractorTool.execute; a text that is absent is read as the empty
\* text, and the answer says whether a pattern matches the text
UserDataExtractor(inputs, answer) ==
  IF "text" \in DOMAIN inputs /\ answer = "hit"
  THEN [status |-> "success", data |-> "extracted", missing_fields |-> <<>>]
  ELSE [status |-> "partial", data |-> "nothing", missing_fields |-> <<>>]

\* ToolRegistry.execute: the ToolResult, and whether its message names the
\* tool asked for
RegistryExecute(has_db, name, inputs, answer) ==
  IF name \notin RegisteredTools(has_db)
  THEN [status |-> "error", data |-> "none", missing_fields |-> <<>>,
        names_tool |-> TRUE]
  ELSE LET scheme_id == IF "scheme_id" \in DOMAIN inputs
                        THEN "pm-kisan" ELSE "none"
           r == IF name = "application_status"
                THEN ApplicationStatus(inputs, answer)
                ELSE IF name = "user_data_extractor"
                THEN UserDataExtractor(inputs, answer)
                ELSE ToolExecute(name, inputs, scheme_id, answer)
       IN [status |-> r.status, data |-> r.data,
           missing_fields |-> r.missing_fields, names_tool |-> FALSE]

\* names asked of the registry: its tools and one that is not registered
ToolNames == RegisteredTools(TRUE) \cup {"weather"}

\* inputs handed to a tool: any choice of these keys, each with a value
InputKeys == {"application_id", "scheme_id", "text", "age"}

InputChoices ==
  UNION {[keys -> {1}] : keys \in SUBSET InputKeys}

\* a registry, built with or without a catalog, about to be asked
InitRegistry ==
  /\ memory = NewMemory(0)
  /\ clock = 1
  /\ \E has_db \in BOOLEAN : \E name \in ToolNames : \E inputs \in InputChoices :
        ret = [NoRet EXCEPT !.op = "ask", !.key = name,
                            !.pre = [has_db |-> has_db, inputs |-> inputs,
                                     result |-> RegistryExecute(FALSE, "weather",
                                                                EmptyDict, "miss")]]
  /\ ctx = NewContext(NoInput, 0)
  /\ pc = "idle"
  /\ turn = NoTurn
  /\ failure_history = <<>>

\* ToolRegistry.execute(name, inputs)
CallExecute(answer) ==
  /\ ret.op = "ask"
  /\ ret' = [ret EXCEPT !.op = "executed",
                        !.pre.result = RegistryExecute(ret.pre.has_db, ret.key,
                                                       ret.pre.inputs, answer)]
  /\ UNCHANGED <<memory, clock, ctx, pc, turn, failure_history>>

NextRegistry == \E answer \in {"hit", "miss"} : CallExecute(answer)

SpecRegistry == InitRegistry /\ [][NextRegistry]_vars

(***************************************************************************)
(* The sessions of the process.                                            *)
(***************************************************************************)
\* Memory.is_expired: the default timeout, in seconds
SessionTimeout == 1800

IsExpired_AtTimeout(last_activity, now) == now - last_activity >= SessionTimeout

\* Memory.is_expired
IsExpired(last_activity, now) == now - last_activity > SessionTimeout

\* SessionManager.get: the id of the session returned, NoneV for None; the
\* manager's dict is kept as session id -> last_activity of the session
SessionGet(sessions, session_id, now) ==
  IF session_id \in DOMAIN sessions /\ ~IsExpired(sessions[session_id], now)
  THEN session_id
  ELSE NoneV

\* get_or_create_session: the manager's dict after the call, the session
\* the call returns and the number of sessions constructed so far;
\* Memory() draws an id that no session has had
GetOrCreateSession(sessions, made, session_id, now) ==
  IF session_id # NoneV /\ SessionGet(sessions, session_id, now) # NoneV
  THEN [sessions |-> sessions, returned |-> session_id, made |-> made]
  ELSE [sessions |-> Put(sessions, made + 1, now), returned |-> made + 1,
        made |-> made + 1]

\* SessionManager.cleanup_expired
CleanupExpired(sessions, now) ==
  [sid \in {s \in DOMAIN sessions : ~IsExpired(sessions[s], now)} |->
     sessions[sid]]

\* ids a request can carry: none, an id of a session constructed so far or
\* one that no session has had
RequestIds == {NoneV} \cup (1..(MaxSessions + 1))

\* how long the process waits between two calls, in seconds
WaitSteps == {1, SessionTimeout}

\* the manager of a process that has served no request
InitSessions ==
  /\ memory = NewMemory(0)
  /\ clock = 1
  /\ ret = [NoRet EXCEPT !.pre = [sessions |-> EmptyDict, before |-> EmptyDict,
                                  made |-> 0, returned |-> NoneV, waits |-> 0]]
  /\ ctx = NewContext(NoInput, 0)
  /\ pc = "idle"
  /\ turn = NoTurn
  /\ failure_history = <<>>

\* SessionManager.get(session_id)
CallGet(session_id) ==
  /\ session_id # NoneV
  /\ ret' = [ret EXCEPT !.op = "get", !.key = session_id, !.at = clock,
                        !.pre.before = ret.pre.sessions,
                        !.pre.returned =
                           SessionGet(ret.pre.sessions, session_id, clock)]
  /\ UNCHANGED <<memory, clock, ctx, pc, turn, failure_history>>

\* get_or_create_session(session_id)
CallGetOrCreate(session_id) ==
  /\ \/ ret.pre.made < MaxSessions
     \/ SessionGet(ret.pre.sessions, session_id, clock) # NoneV
  /\ LET r == GetOrCreateSession(ret.pre.sessions, ret.pre.made, session_id,
                                 clock)
     IN ret' = [ret EXCEPT !.op = "get_or_create", !.key = session_id,
                           !.at = clock,
                           !.pre.before = ret.pre.sessions,
                           !.pre.sessions = r.sessions,
                           !.pre.made = r.made,
                           !.pre.returned = r.returned]
  /\ UNCHANGED <<memory, clock, ctx, pc, turn, failure_history>>

\* SessionManager.cleanup_expired()
CallCleanupExpired ==
  /\ ret' = [ret EXCEPT !.op = "cleanup", !.key = NoneV, !.at = clock,
                        !.pre.before = ret.pre.sessions,
                        !.pre.sessions = CleanupExpired(ret.pre.sessions, clock),
                        !.pre.returned = NoneV]
  /\ UNCHANGED <<memory, clock, ctx, pc, turn, failure_history>>

\* a turn on a session stores a fact or a history entry: Memory.set and
\* Memory.add_turn set last_activity to the time of the call
Activity(session_id) ==
  /\ session_id \in DOMAIN ret.pre.sessions
  /\ ret' = [ret EXCEPT !.op = "activity", !.key = session_id, !.at = clock,
                        !.pre.before = ret.pre.sessions,
                        !.pre.sessions = Put(ret.pre.sessions, session_id, clock),
                        !.pre.returned = NoneV]
  /\ UNCHANGED <<memory, clock, ctx, pc, turn, failure_history>>

\* time passes between two calls
Wait(step) ==
  /\ ret.pre.waits < MaxTicks
  /\ clock' = clock + step
  /\ ret' = [ret EXCEPT !.op = "wait", !.pre.waits = @ + 1]
  /\ UNCHANGED <<memory, ctx, pc, turn, failure_history>>

NextSessions ==
  \/ \E session_id \in RequestIds : CallGet(session_id)
  \/ \E session_id \in RequestIds : CallGetOrCreate(session_id)
  \/ CallCleanupExpired
  \/ \E session_id \in RequestIds : Activity(session_id)
  \/ \E step \in WaitSteps : Wait(step)

SpecSessions == InitSessions /\ [][NextSessions]_vars

(***************************************************************************)
(* Properties of the fact store.                                           *)
(***************************************************************************)
\* the call recorded in ret was a Memory.set on a recognized field
WasSet == ret.op = "set" /\ ret.key \in VALID_FIELDS

\* the field of the recorded call held a confirmed value when it was made
PreConfirmed == Has(ret.pre, ret.key) /\ DictGet(ret.pre.confirmed, ret.key, FALSE)

\* the recorded call queued exactly one contradiction (field, old value of
\* the field, written value) and left the stored facts and flags alone
RejectedWithOneNewPending ==
  /\ ~ret.ok
  /\ ret.contra # 0
  /\ memory.data = ret.pre.data
  /\ memory.confirmed = ret.pre.confirmed
  /\ memory.pending = Append(ret.pre.pending, ret.contra)
  /\ ret.contra \notin {ret.pre.pending[i] : i \in 1..Len(ret.pre.pending)}
  /\ LET c == memory.contradictions[ret.contra]
     IN /\ c.field = ret.key
        /\ c.old_value = ret.pre.data[ret.key]
        /\ c.new_value = ret.value
        /\ ~c.resolved

\* the recorded call stored its value and raised no contradiction
AcceptedWithoutContradiction ==
  /\ ret.ok
  /\ ret.contra = 0
  /\ memory.data[ret.key] = ret.value
  /\ memory.contradictions = ret.pre.contradictions
  /\ memory.pending = ret.pre.pending

\* C1: a Memory.set on a stable field whose stored value is confirmed, with a
\* value different from the stored one, returns (False, contradiction), keeps
\* the stored value and the confirmed flag, and appends exactly one entry
\* (field, stored value, written value) to the pending queue.
C1_StableConflictRejected ==
  (WasSet /\ ret.key \in STABLE_FIELDS /\ PreConfirmed
     /\ ret.pre.data[ret.key] # ret.value)
  => RejectedWithOneNewPending

C1_Witness ==
  /\ WasSet /\ ret.key \in STABLE_FIELDS /\ PreConfirmed
  /\ ret.pre.data[ret.key] # ret.value
  /\ ~ret.ok
  /\ Len(memory.pending) = Len(ret.pre.pending) + 1

\* no contradiction of the field has been resolved so far
NeverResolved(m, f) ==
  \A i \in 1..Len(m.contradictions) :
     m.contradictions[i].field = f => ~m.contradictions[i].resolved

\* C2: from the rejection of a write to a field until resolve_contradiction
\* is called for that field, no Memory.set on the field is accepted, whatever
\* its value, and the stored value of the field does not change.
C2_NoWriteAcceptedWhilePending ==
  (WasSet /\ FirstPending(ret.pre, ret.key) # 0 /\ NeverResolved(ret.pre, ret.key))
  => /\ ~ret.ok
     /\ memory.data[ret.key] = ret.pre.data[ret.key]

\* C3: resolve_contradiction(field, use_new_value=False) on a field with a
\* pending contradiction leaves the stored value equal to that contradiction's
\* old_value, confirms the field, marks the contradiction resolved as kept_old
\* and takes it out of the pending queue.
C3_KeepOldLeavesOldValue ==
  (ret.op = "resolve" /\ ~ret.flag /\ FirstPending(ret.pre, ret.key) # 0)
  => LET c == ret.pre.pending[FirstPending(ret.pre, ret.key)]
     IN /\ ret.ok
        /\ memory.data[ret.key] = ret.pre.contradictions[c].old_value
        /\ memory.confirmed[ret.key] = TRUE
        /\ memory.contradictions[c].resolved
        /\ memory.contradictions[c].resolution = "kept_old"
        /\ c \notin {memory.pending[i] : i \in 1..Len(memory.pending)}

\* a successful resolve_contradiction leaves its contradiction resolved and
\* out of what get_pending_contradictions returns
ResolvedLeavesQueue ==
  (ret.op = "resolve" /\ ret.ok)
  => /\ memory.contradictions[ret.contra].resolved
     /\ \A i \in 1..Len(GetPending(memory)) :
           GetPending(memory)[i] # memory.contradictions[ret.contra]
     /\ ret.contra \notin {memory.pending[i] : i \in 1..Len(memory.pending)}

\* the written value is a material change of the stored one: any change of
\* a stable field, a change of income by more than 50000
MaterialChange ==
  /\ ret.pre.data[ret.key] # ret.value
  /\ \/ ret.key \in {"age", "gender", "category", "disability"}
     \/ ret.key = "income" /\ Abs(ret.pre.data[ret.key] - ret.value) > 50000

\* C4 (as stated): once resolve_contradiction has succeeded for a field, the
\* contradiction is resolved and no longer pending, and the very next
\* Memory.set on that field with a new value is accepted and stored.
C4_NextNewValueAccepted ==
  /\ ResolvedLeavesQueue
  /\ (WasSet /\ ret.was_fresh /\ ret.pre.data[ret.key] # ret.value)
     => (ret.ok /\ memory.data[ret.key] = ret.value)

\* C4 (amended): once resolve_contradiction has succeeded for a field, the
\* contradiction is resolved and no longer pending and the field is
\* confirmed; the very next Memory.set on that field is accepted and stored
\* unless its value is a material change of the stored one, and a material
\* change is rejected with one new pending contradiction.
C4_NextWriteFacesConfirmedField ==
  /\ ResolvedLeavesQueue
  /\ (ret.op = "resolve" /\ ret.ok) => memory.confirmed[ret.key] = TRUE
  /\ (WasSet /\ ret.was_fresh)
     => IF MaterialChange
        THEN RejectedWithOneNewPending
        ELSE ret.ok /\ memory.data[ret.key] = ret.value

C4_Witness ==
  /\ WasSet /\ ret.was_fresh
  /\ ret.pre.data[ret.key] # ret.value
  /\ ~ret.ok
  /\ \E i \in 1..Len(ret.pre.contradictions) :
        /\ ret.pre.contradictions[i].field = ret.key
        /\ ret.pre.contradictions[i].resolved

\* C5: for every recognized field, a Memory.set on a field without a stored
\* value succeeds and stores the value; a Memory.set that repeats the stored,
\* confirmed value succeeds, creates no contradiction and queues nothing.
C5_FirstWriteAndRepeatSucceed ==
  /\ (WasSet /\ ~Has(ret.pre, ret.key))
     => (ret.ok /\ Has(memory, ret.key) /\ memory.data[ret.key] = ret.value)
  /\ (WasSet /\ PreConfirmed /\ ret.pre.data[ret.key] = ret.value)
     => AcceptedWithoutContradiction

C5_Witness ==
  /\ WasSet /\ PreConfirmed
  /\ ret.pre.data[ret.key] = ret.value
  /\ ret.ok
  /\ Len(memory.field_history[ret.key]) >= 2

\* C6: for every mutable field with a confirmed stored value, a Memory.set
\* with a differing value within tolerance (income: difference at most 50000;
\* the code sets no threshold for state, area, occupation and bpl) is
\* accepted without any contradiction, and one outside tolerance is rejected
\* with a new pending contradiction.
C6_MutableTolerance ==
  (WasSet /\ ret.key \in {"income", "state", "area", "occupation", "bpl"}
     /\ PreConfirmed /\ ret.pre.data[ret.key] # ret.value)
  => IF ret.key = "income" /\ Abs(ret.pre.data[ret.key] - ret.value) > 50000
     THEN RejectedWithOneNewPending
     ELSE AcceptedWithoutContradiction

C6_Witness ==
  /\ WasSet /\ ret.key = "income" /\ PreConfirmed
  /\ Abs(ret.pre.data[ret.key] - ret.value) = 50000
  /\ ret.ok
  /\ \E i \in 1..Len(memory.pending) :
        memory.contradictions[memory.pending[i]].field = "income"

\* C7: a Memory.set with a key outside the vocabulary returns (False, None)
\* and leaves the whole session as it was: facts, confirmed flags, field
\* history, both contradiction lists and last_activity.
C7_UnknownKeyIsNoOp ==
  (ret.op = "set" /\ ret.key \notin VALID_FIELDS)
  => /\ ~ret.ok
     /\ ret.contra = 0
     /\ memory = ret.pre

C7_Witness ==
  /\ ret.op = "set" /\ ret.key \notin VALID_FIELDS
  /\ ~ret.ok
  /\ DOMAIN memory.data # {}

(***************************************************************************)
(* Properties of the turn context.                                         *)
(***************************************************************************)
\* C9: StateContext.transition_to with a target outside the allowed set of
\* the current state raises an error and leaves current_state,
\* previous_states and state_history unchanged.
C9_IllegalTransitionFailsFast ==
  (ret.op = "transition" /\ ~CanTransition(ret.pre.current_state, ret.key))
  => /\ ~ret.ok
     /\ ctx.current_state = ret.pre.current_state
     /\ ctx.previous_states = ret.pre.previous_states
     /\ ctx.state_history = ret.pre.state_history

(***************************************************************************)
(* Properties of a turn.                                                   *)
(***************************************************************************)
\* C8: every state change AgenticAgent.process performs during a turn is a
\* pair (from, to) that StateMachine.can_transition accepts.
C8_TurnFollowsTransitionGraph ==
  \A i \in 1..Len(ctx.state_history) :
     CanTransition(ctx.state_history[i].from, ctx.state_history[i].to)

\* the turn began with age stored as 45 and confirmed and nothing pending,
\* its utterance carries age = 70, and its planner has run
Age45Then70 ==
  /\ turn.n > 0
  /\ Has(turn.start, "age")
  /\ turn.start.data["age"] = 45
  /\ DictGet(turn.start.confirmed, "age", FALSE)
  /\ ~HasPending(turn.start)
  /\ DictGet(ctx.current_input.extracted, "age", NoneV) = 70
  /\ ctx.current_plan.present

\* C10: in a session whose age is stored as 45 and confirmed, with nothing
\* pending, a turn whose extracted facts contain age = 70 leaves the stored
\* age at 45 and records one pending contradiction (age, 45, 70); the turn is
\* evaluated unless a tool raised, and its evaluation has
\* contradiction_detected true and next_action ask_clarification.
C10_Age45Then70AsksClarification ==
  Age45Then70
  => /\ memory.data["age"] = 45
     /\ LET P == {i \in 1..Len(memory.pending) :
                    memory.contradictions[memory.pending[i]].field = "age"}
        IN /\ Cardinality(P) = 1
           /\ \A i \in P :
                 /\ memory.contradictions[memory.pending[i]].old_value = 45
                 /\ memory.contradictions[memory.pending[i]].new_value = 70
                 /\ ~memory.contradictions[memory.pending[i]].resolved
     /\ (pc = "idle" /\ turn.reply # "error") => ctx.evaluation.present
     /\ ctx.evaluation.present
        => /\ ctx.evaluation.contradiction_detected
           /\ ctx.evaluation.next_action = "ask_clarification"
           /\ ctx.evaluation.contradiction_details =
                 [field |-> "age", old_value |-> 45, new_value |-> 70]

C10_Witness ==
  /\ Age45Then70
  /\ ctx.evaluation.present
  /\ ctx.evaluation.needs_clarification
  /\ ctx.evaluation.next_action = "ask_clarification"
  /\ Len(memory.pending) = 1

\* a turn has returned and its reply is one process produces outside its
\* except branch
TurnReplied == pc = "idle" /\ turn.n > 0 /\ turn.reply \notin {"none", "error"}

\* C11: every turn of AgenticAgent.process that returns a reply has appended
\* exactly two entries to the session history, the user utterance and then
\* the assistant reply, whichever path produced the reply.
C11_ReplyAppendsTwoTurns ==
  TurnReplied
  => /\ Len(memory.history) = Len(turn.start.history) + 2
     /\ memory.history[Len(memory.history) - 1].role = "user"
     /\ memory.history[Len(memory.history)].role = "assistant"

\* C12: every call of AgenticAgent.process ends with the turn context in
\* state complete or in state error_recovery.
C12_TurnEndsCompleteOrRecovering ==
  (pc = "idle" /\ turn.n > 0)
  => ctx.current_state \in {"complete", "error_recovery"}

(***************************************************************************)
(* Properties of the failure handler.                                      *)
(***************************************************************************)
\* the recorded call was a turn ending in _handle_error, and the five such
\* turns before it all lie less than five minutes before it
SixthFailingTurn ==
  /\ ret.op = "handle_error"
  /\ Len(ret.errors) >= 6
  /\ \A j \in 1..Len(ret.errors) :
        j >= Len(ret.errors) - 5 => ret.at - ret.errors[j] < EscalationWindow

\* C13: after five turns that each ended in _handle_error within five
\* minutes, the next failing turn returns the escalation message and not a
\* system_error recovery message; and every failing turn returns it while
\* five recorded failures lie inside the trailing window.
C13_SixthFailingTurnEscalates ==
  /\ SixthFailingTurn => ret.action = "escalate"
  /\ (ret.op = "handle_error" /\ ShouldEscalate(ret.pre, ret.at))
        => ret.action = "escalate"

\* the recorded call was handle_failure or one of the helpers built on it
WasHandleFailure ==
  ret.op \in {"handle_failure", "get_missing_info_response",
              "get_contradiction_response", "get_stt_error_response"}

\* C14: whenever at least five failures have been recorded within the
\* trailing five minutes, a failure-handling call yields the escalation
\* message instead of a recovery action.
C14_HandleFailureEscalates ==
  (WasHandleFailure /\ ShouldEscalate(ret.pre, ret.at))
  => ret.action = "escalate"

\* records of the category of the recorded call among the last five records
\* present before it
SameBefore ==
  Cardinality({i \in 1..Len(ret.pre) :
                 /\ Len(ret.pre) - i < 5
                 /\ ret.pre[i].failure_type = ret.key})

EligibilityWithoutAgeAndIncome ==
  /\ TurnReplied
  /\ ctx.current_plan.present
  /\ ctx.current_plan.intent = "eligibility_check"
  /\ ~GetTruthy(ctx.current_plan.available_info, "age")
  /\ ~GetTruthy(ctx.current_plan.available_info, "income")

\* C16: every eligibility-check turn in which neither age nor income is
\* available has needs_clarification true and a reply that asks for both age
\* and income, the first time and on every repetition in the same process.
C16_AsksForAgeAndIncome ==
  EligibilityWithoutAgeAndIncome
  => /\ ctx.evaluation.present
     /\ ctx.evaluation.needs_clarification
     /\ turn.reply = "clarification_request"
     /\ turn.asked = <<"age", "income">>

\* C20: the reply of a turn of a session does not depend on the turns other
\* sessions of the process have processed: in the first turn of a session the
\* action behind the reply is the one a handler without records returns.
C20_ReplyIndependentOfOtherSessions ==
  (pc = "idle" /\ turn.n = 1)
  => /\ turn.reply = "clarification_request"
          => turn.action =
               GenerateClarificationRequest(ctx.current_plan, <<>>, clock).action
     /\ turn.reply = "contradiction_question"
          => turn.action = GenerateContradictionResponse(<<>>, clock).action
     /\ turn.reply = "error"
          => turn.action = ErrorRecovery(<<>>, clock).action

(***************************************************************************)
(* Properties of the eligibility check.                                    *)
(***************************************************************************)
\* the criteria an entry declares, as (fact, bound or value, kind)
MinAge == IF ret.pre.rules.age_min # NoneV THEN ret.pre.rules.age_min
          ELSE ret.pre.rules.min_age

DeclaredCriteria ==
  {c \in {"age_min", "age_max", "income_max", "gender", "category", "bpl"} :
     CASE c = "age_min" -> MinAge # NoneV
       [] c = "age_max" -> ret.pre.rules.age_max # NoneV
       [] c = "income_max" -> ret.pre.rules.income_max # NoneV
       [] c = "gender" -> ret.pre.rules.gender # NoneV
       [] c = "category" -> ret.pre.rules.categories.declared
       [] c = "bpl" -> ret.pre.rules.bpl = 1}

\* the fact a criterion is about
FactOf(c) ==
  CASE c = "age_min" -> ret.pre.user_data.age
    [] c = "age_max" -> ret.pre.user_data.age
    [] c = "income_max" -> ret.pre.user_data.income
    [] c = "gender" -> ret.pre.user_data.gender
    [] c = "category" -> ret.pre.user_data.category
    [] c = "bpl" -> ret.pre.user_data.bpl

\* a declared criterion whose fact is known is satisfied
Satisfied(c) ==
  CASE c = "age_min" -> FactOf(c) >= MinAge
    [] c = "age_max" -> FactOf(c) <= ret.pre.rules.age_max
    [] c = "income_max" -> FactOf(c) <= ret.pre.rules.income_max
    [] c = "gender" -> Lower(FactOf(c)) = Lower(ret.pre.rules.gender)
    [] c = "category" -> FactOf(c) \in ret.pre.rules.categories.allow
    [] c = "bpl" -> FactOf(c) = 1

\* C17: _check_scheme_eligibility returns not_eligible if a declared
\* criterion fails, partial if none fails and the fact of one is unknown,
\* eligible if all are known and satisfied; and the tool counts the entry in
\* exactly one of its three lists.
C17_ThreeWayStatus ==
  ret.op = "checked"
  => LET failed == {c \in DeclaredCriteria : FactOf(c) # NoneV /\ ~Satisfied(c)}
         unknown == {c \in DeclaredCriteria : FactOf(c) = NoneV}
     IN /\ ret.key = (IF failed # {} THEN "not_eligible"
                      ELSE IF unknown # {} THEN "partial"
                      ELSE "eligible")
        /\ ret.pre.eligible + ret.pre.partial + ret.pre.not_eligible = 1

(***************************************************************************)
(* Properties of the catalog search.                                       *)
(***************************************************************************)
\* C18: among the results of search_schemes, of two entries with the same
\* category-match outcome the one whose name matches comes before the one
\* that matches only through its tags; scores descend and entries of equal
\* score keep their catalog order.
C18_NameOutranksTags ==
  ret.op = "searched"
  => LET catalog == ret.pre.catalog
         results == ret.pre.results
         NameMatch(e) == e.name_hi \/ e.name_en
         TagOnly(e) == ~e.name_hi /\ ~e.name_en /\ e.tags > 0
     IN \A i, j \in 1..Len(results) :
          /\ (/\ NameMatch(catalog[results[i]])
              /\ TagOnly(catalog[results[j]])
              /\ catalog[results[i]].category = catalog[results[j]].category)
             => i < j
          /\ i < j => Score(catalog[results[i]]) >= Score(catalog[results[j]])
          /\ (i < j /\ Score(catalog[results[i]]) = Score(catalog[results[j]]))
             => results[i] < results[j]

(***************************************************************************)
(* Properties of the session history.                                      *)
(***************************************************************************)
\* C19: after any sequence of Memory.add_turn calls the history holds at
\* most 20 turns, and they are the most recently added ones in the order
\* they were added.  The turn added at time t carries the timestamp t, and
\* clock - 1 turns have been added in all.
C19_HistoryKeepsNewestTwenty ==
  /\ Len(memory.history) <= 20
  /\ Len(memory.history) = (IF clock - 1 < 20 THEN clock - 1 ELSE 20)
  /\ \A i \in 1..Len(memory.history) :
        memory.history[i].timestamp = clock - 1 - Len(memory.history) + i

\* a call has evicted the oldest turn of a full history
C19_Witness ==
  /\ ret.op = "add_turn"
  /\ Len(ret.pre.history) = 20
  /\ Len(memory.history) = 20
  /\ memory.history[1].timestamp = ret.pre.history[2].timestamp
  /\ memory.history[20].timestamp = ret.at

(***************************************************************************)
(* Error handling of a turn.                                               *)
(***************************************************************************)
\* the turn in progress follows one that ended in _handle_error
FollowsFailedTurn ==
  /\ turn.n > 1
  /\ turn.failures # <<>>
  /\ turn.failures[Len(turn.failures)].failure_type = "system_error"

\* C21: when a step of a turn raises, process still returns a reply, the
\* context of the turn moves to error_recovery and its error_count grows by
\* one; the next call on the session begins with a context in
\* receiving_input whose error_count is zero, and no step of a turn runs
\* with a used-up error count
C21_RaiseRecoversAndNextTurnStartsClean ==
  [][/\ pc = "error" =>
          /\ pc' = "idle"
          /\ turn'.reply = "error"
          /\ turn'.action # "none"
          /\ ctx'.current_state = "error_recovery"
          /\ ctx'.error_count = ctx.error_count + 1
          /\ memory' = memory
     /\ (pc = "idle" /\ pc' = "pending") =>
          /\ ctx'.current_state = "receiving_input"
          /\ ctx'.error_count = 0
          /\ ctx'.previous_states = <<>>
          /\ ~ctx'.current_plan.present
          /\ ctx'.tools_called = <<>>
     /\ pc' \notin {"idle", "error"} => ctx'.error_count = 0]_vars

\* a turn after a failed one has run all four phases and completed
C21_Witness ==
  /\ FollowsFailedTurn
  /\ pc = "idle"
  /\ ctx.current_state = "complete"
  /\ ctx.current_plan.intent = "eligibility_check"
  /\ turn.reply = "llm"

(***************************************************************************)
(* Properties of the tool registry.                                        *)
(***************************************************************************)
\* the required inputs of the tool asked for that the call does not carry
AbsentRequired ==
  Filter(RequiredInputs(ret.key),
         Range(RequiredInputs(ret.key)) \ DOMAIN ret.pre.inputs)

\* C22: a call with a name that is not registered returns status error with
\* a message that names the tool; a call to a registered tool without one of
\* its required inputs returns needs_info with the absent inputs as
\* missing_fields.
C22_UnknownToolAndMissingInputs ==
  ret.op = "executed"
  => /\ ret.key \notin RegisteredTools(ret.pre.has_db)
          => /\ ret.pre.result.status = "error"
             /\ ret.pre.result.names_tool
     /\ (ret.key \in RegisteredTools(ret.pre.has_db) /\ AbsentRequired # <<>>)
          => /\ ret.pre.result.status = "needs_info"
             /\ ret.pre.result.missing_fields = AbsentRequired

(***************************************************************************)
(* Properties of the session manager.                                      *)
(***************************************************************************)
\* the session asked for was registered and has been idle no longer than
\* the timeout when the call was made
Resumable ==
  /\ ret.key \in DOMAIN ret.pre.before
  /\ ret.at - ret.pre.before[ret.key] <= SessionTimeout

\* C23: get returns the session registered under the id when it has been
\* idle no longer than 1800 seconds and nothing otherwise;
\* get_or_create_session resumes that session and in every other case
\* registers a new session under an id no session has had; cleanup_expired
\* removes the sessions idle longer than 1800 seconds and no other.
C23_SessionsResumeUntilExpired ==
  /\ ret.op = "get" =>
        ret.pre.returned = IF Resumable THEN ret.key ELSE NoneV
  /\ ret.op = "get_or_create" =>
        IF Resumable
        THEN /\ ret.pre.returned = ret.key
             /\ ret.pre.sessions = ret.pre.before
        ELSE /\ ret.pre.returned \notin DOMAIN ret.pre.before
             /\ ret.pre.returned = ret.pre.made
             /\ \A sid \in DOMAIN ret.pre.before : sid < ret.pre.returned
             /\ DOMAIN ret.pre.sessions =
                  DOMAIN ret.pre.before \cup {ret.pre.returned}
             /\ ret.pre.sessions[ret.pre.returned] = ret.at
             /\ \A sid \in DOMAIN ret.pre.before :
                  ret.pre.sessions[sid] = ret.pre.before[sid]
  /\ ret.op = "cleanup" =>
        /\ DOMAIN ret.pre.sessions =
             {sid \in DOMAIN ret.pre.before :
                ret.at - ret.pre.before[sid] <= SessionTimeout}
        /\ \A sid \in DOMAIN ret.pre.sessions :
             ret.pre.sessions[sid] = ret.pre.before[sid]

\* a request carries the id of a session idle for exactly the timeout and
\* resumes it
C23_Witness ==
  /\ ret.op = "get_or_create"
  /\ ret.key \in DOMAIN ret.pre.before
  /\ ret.at - ret.pre.before[ret.key] = SessionTimeout
  /\ ret.pre.returned = ret.key

(***************************************************************************)
(* Properties of the executor and the evaluator.                           *)
(***************************************************************************)
\* _execute has returned its results to process
ExecuteReturned ==
  \/ pc \in {"evaluate", "respond"}
  \/ pc = "idle" /\ ctx.evaluation.present

\* the tool behind a result answered needs_info: the result is neither a
\* success nor an error
AskedForInfo(result) == ~result.success /\ ~result.error

\* C24: the steps of the plan run in plan order, execution stops at the
\* first tool that answers needs_info, tools_called is the prefix of the
\* plan's tools up to the last tool called, and it matches the returned
\* results in length and order.
C24_ToolsRunInOrderUntilNeedsInfo ==
  (pc = "tool" \/ ExecuteReturned)
  => LET plan == ctx.current_plan
         called == ctx.tools_called
         results == ctx.execution_results
     IN /\ Len(called) <= Len(plan.steps)
        /\ called = SubSeq(plan.steps, 1, Len(called))
        /\ Len(results) = Len(called)
        /\ \A i \in 1..Len(results) : results[i].tool_name = called[i]
        /\ \A i \in 1..Len(results) :
             AskedForInfo(results[i]) => i = Len(results)
        /\ pc = "tool" =>
             /\ Len(called) < Len(plan.steps)
             /\ \A i \in 1..Len(results) : ~AskedForInfo(results[i])
        /\ (ExecuteReturned /\ Len(called) < Len(plan.steps))
             => /\ results # <<>>
                /\ AskedForInfo(results[Len(results)])

\* the first of two planned tools asked for information and the second
\* was not called
C24_Witness ==
  /\ pc = "evaluate"
  /\ Len(ctx.current_plan.steps) = 2
  /\ ctx.tools_called = <<ctx.current_plan.steps[1]>>
  /\ Len(ctx.execution_results) = 1
  /\ AskedForInfo(ctx.execution_results[1])

\* C25: next_action is ask_clarification whenever a contradiction is
\* pending, else ask_user whenever clarification is needed, else re-execute
\* whenever a tool result failed and error_count is below max_retries, else
\* respond; needs_clarification holds exactly when the filtered missing set
\* is not empty and the intent is eligibility_check or application_help.
C25_NextActionByPriority ==
  ctx.evaluation.present
  => LET e == ctx.evaluation
         results == ctx.execution_results
         any_failed == \E i \in 1..Len(results) : ~results[i].success
     IN /\ e.needs_clarification
             <=> (e.missing # {}
                    /\ ctx.current_plan.intent
                          \in {"eligibility_check", "application_help"})
        /\ e.missing = ActuallyMissing(ctx.current_plan, results)
        /\ HasPending(memory) => e.next_action = "ask_clarification"
        /\ (~HasPending(memory) /\ e.needs_clarification)
             => e.next_action = "ask_user"
        /\ (~HasPending(memory) /\ ~e.needs_clarification /\ any_failed
              /\ ctx.error_count < ctx.max_retries)
             => e.next_action = "re-execute"
        /\ (~HasPending(memory) /\ ~e.needs_clarification
              /\ ~(any_failed /\ ctx.error_count < ctx.max_retries))
             => e.next_action = "respond"

\* a tool failed in a turn with nothing to ask: the evaluator asks for a
\* second run
C25_Witness ==
  /\ ctx.evaluation.present
  /\ ~HasPending(memory)
  /\ ~ctx.evaluation.needs_clarification
  /\ \E i \in 1..Len(ctx.execution_results) : ctx.execution_results[i].error
  /\ ctx.evaluation.next_action = "re-execute"

\* the success rate the score is built on, in hundredths: the share of the
\* results that succeeded, one half when no tool ran
SuccessRate(results) ==
  IF results = <<>> THEN 50
  ELSE (100 * Cardinality({i \in 1..Len(results) : results[i].success}))
         \div Len(results)

\* C26: the quality score of an evaluation is
\* 0.6*s + 0.4*(1 - missingCount/max(requiredCount, 1)), with s the share of
\* succeeded tools, or 0.5 when no tool ran (in hundredths).
C26_QualityIsWeightedSum ==
  ctx.evaluation.present
  => LET plan == ctx.current_plan
         required == IF Len(plan.required_info) > 1
                     THEN Len(plan.required_info) ELSE 1
     IN ctx.evaluation.quality_score =
          (60 * SuccessRate(ctx.execution_results)) \div 100
            + 40 - (40 * Cardinality(ctx.evaluation.missing)) \div required

\* C27: the quality score of every evaluation a turn produces lies between
\* 0 and 1 (in hundredths, between 0 and 100), also when the intent requires
\* no facts and a tool reports missing fields.
C27_QualityWithinUnitInterval ==
  ctx.evaluation.present
  => /\ ctx.evaluation.quality_score >= 0
     /\ ctx.evaluation.quality_score <= 100

\* an intent without required facts whose tool misses both age and income
C27_Witness ==
  /\ ctx.evaluation.present
  /\ ctx.current_plan.required_info = <<>>
  /\ ctx.evaluation.missing = {"age", "income"}
  /\ ctx.evaluation.quality_score = 20

(***************************************************************************)
(* Properties of the reply and of the plan.                                *)
(***************************************************************************)
\* C28: a turn whose evaluation needs clarification while at least one tool
\* result succeeded replies with the hybrid reply of
\* _generate_partial_response_with_question.
C28_PartialReplyWhenClarifying ==
  (/\ pc = "idle"
   /\ ctx.evaluation.present
   /\ ctx.evaluation.needs_clarification
   /\ \E i \in 1..Len(ctx.execution_results) : ctx.execution_results[i].success)
  => turn.reply = "partial_with_question"

\* the extracted fields whose write this turn was rejected: the new value
\* waits in a pending contradiction recorded during the turn
RejectedFields ==
  {f \in DOMAIN ctx.current_input.extracted :
     \E i \in 1..Len(memory.pending) :
        /\ GetPending(memory)[i].field = f
        /\ GetPending(memory)[i].new_value = ctx.current_input.extracted[f]
        /\ GetPending(memory)[i].timestamp >= ctx.started_at}

\* the other extracted fields are stored and the turn goes on to its
\* evaluation
OtherWritesApplied ==
  /\ \A k \in DOMAIN ctx.current_input.extracted \ RejectedFields :
        DictGet(memory.data, k, NoneV) = ctx.current_input.extracted[k]
  /\ (pc = "idle" /\ turn.reply # "error") => ctx.evaluation.present

\* C29: in a turn where the write of an extracted field is rejected by a
\* contradiction, the writes of the other extracted fields are applied, the
\* turn goes on, and the tools of the turn receive the stored value of the
\* field, not the rejected one.
C29_ToolsSeeConfirmedValue ==
  (ctx.current_plan.present /\ RejectedFields # {})
  => /\ OtherWritesApplied
     /\ \A f \in RejectedFields :
          DictGet(ctx.current_plan.available_info, f, NoneV) = memory.data[f]

\* C30: the plan's available_info is the stored facts overlaid with the
\* facts extracted this turn, the extracted value winning on a shared key
\* while the store keeps its own; missing_info is the required facts that
\* are not keys of available_info. A fresh-session eligibility turn that
\* extracts age and income has nothing missing.
C30_PlanSnapshotAndMissingInfo ==
  ctx.current_plan.present
  => LET plan == ctx.current_plan
         extracted == ctx.current_input.extracted
     IN /\ DOMAIN plan.available_info = DOMAIN memory.data \cup DOMAIN extracted
        /\ \A k \in DOMAIN extracted : plan.available_info[k] = extracted[k]
        /\ \A k \in DOMAIN memory.data \ DOMAIN extracted :
             plan.available_info[k] = memory.data[k]
        /\ \A k \in RejectedFields : memory.data[k] # plan.available_info[k]
        /\ plan.missing_info =
             Filter(plan.required_info,
                    {f \in Range(plan.required_info) :
                       f \notin DOMAIN plan.available_info})
        /\ (turn.start.data = EmptyDict /\ plan.intent = "eligibility_check"
              /\ DOMAIN extracted = {"age", "income"})
             => plan.missing_info = <<>>

\* the eligibility turn of a fresh session that extracts age 45 and income
\* 200000 has its plan
C30_Witness ==
  /\ ctx.current_plan.present
  /\ turn.start.data = EmptyDict
  /\ ctx.current_plan.intent = "eligibility_check"
  /\ ctx.current_input.extracted = [age |-> 45, income |-> 200000]
  /\ ctx.current_plan.available_info = [age |-> 45, income |-> 200000]
  /\ ctx.current_plan.missing_info = <<>>

(***************************************************************************)
(* Properties of the scheme reference.                                     *)
(***************************************************************************)
\* C31: in a turn whose input names a scheme of the keyword mapping, the
\* document lookup of the plan is called with that scheme id and so does
\* not ask for it, also when document_checker is the first step of the plan.
C31_DocumentLookupGetsSchemeId ==
  ctx.current_input.scheme # "none"
  => \A i \in 1..Len(ctx.execution_results) :
        ctx.execution_results[i].tool_name = "document_checker"
          => ~AskedForInfo(ctx.execution_results[i])

(***************************************************************************)
(* Properties of response generation.                                      *)
(***************************************************************************)
\* the turn has ended and its text-generation call had failed
LlmFailed ==
  /\ pc = "idle"
  /\ turn.reply \in {"llm_fallback", "llm_empty"}

\* C32: when the text-generation call of a turn fails, the failure handler
\* gets a record for it and the reply is the handler's message; the turn
\* does not complete as a normal response.
C32_LlmFailureReachesHandler ==
  LlmFailed
  => /\ Len(failure_history) = Len(turn.failures) + 1
     /\ failure_history[Len(failure_history)].failure_type
          \in {"llm_error", "system_error"}
     /\ turn.action # "none"
     /\ ctx.current_state # "complete"

(***************************************************************************)
(* Properties of the session's activity time and of its flags.             *)
(***************************************************************************)
\* C33: every Memory.set on a recognized field sets last_activity to the
\* time of the call, whether the write is accepted or rejected, and so does
\* a resolve_contradiction that applies the new value.
C33_WritesRefreshLastActivity ==
  /\ WasSet => memory.last_activity = ret.at
  /\ (ret.op = "resolve" /\ ret.ok /\ ret.flag) => memory.last_activity = ret.at

\* C34: every call of process refreshes the session's last_activity when the
\* turn starts, before planning and on every path, so the session is not
\* older than its turn while the turn runs or when it has ended.
C34_TurnStartRefreshesActivity ==
  turn.n > 0 => memory.last_activity >= ctx.started_at

(***************************************************************************)
(* Properties of resolve_contradiction with several pending entries.       *)
(***************************************************************************)
\* positions in the pending queue, before the recorded call, of the
\* contradictions of the field the call names
PendingOfField ==
  {j \in 1..Len(ret.pre.pending) :
     ret.pre.contradictions[ret.pre.pending[j]].field = ret.key}

\* C35: resolve_contradiction(field, use_new_value=True) resolves the oldest
\* pending contradiction of the field and nothing else: the stored value
\* becomes its new_value, the field is confirmed, the resolution is used_new,
\* the other pending contradictions, the other contradictions and the other
\* fields' values and flags are unchanged; without a pending contradiction
\* of the field it returns False and changes nothing.
C35_ResolveNewTouchesOldestOnly ==
  (ret.op = "resolve" /\ ret.flag)
  => IF PendingOfField = {}
     THEN ~ret.ok /\ memory = ret.pre
     ELSE LET j == Min(PendingOfField)
              c == ret.pre.pending[j]
          IN /\ ret.ok
             /\ memory.data[ret.key] = ret.pre.contradictions[c].new_value
             /\ memory.confirmed[ret.key]
             /\ memory.contradictions[c].resolved
             /\ memory.contradictions[c].resolution = "used_new"
             /\ memory.pending = RemoveAt(ret.pre.pending, j)
             /\ Len(memory.contradictions) = Len(ret.pre.contradictions)
             /\ \A k \in 1..Len(memory.contradictions) :
                  k # c => memory.contradictions[k] = ret.pre.contradictions[k]
             /\ DOMAIN memory.data = DOMAIN ret.pre.data
             /\ \A f \in DOMAIN memory.data \ {ret.key} :
                  /\ memory.data[f] = ret.pre.data[f]
                  /\ memory.confirmed[f] = ret.pre.confirmed[f]

\* the field had two pending contradictions and another field a confirmed
\* value: the older of the two was resolved with its new value and the
\* later one is still pending
C35_Witness ==
  /\ ret.op = "resolve"
  /\ ret.flag
  /\ ret.ok
  /\ Cardinality(PendingOfField) = 2
  /\ DOMAIN ret.pre.data = {"age", "income"}
  /\ ret.contra = ret.pre.pending[1]
  /\ memory.pending = <<ret.pre.pending[2]>>

(***************************************************************************)
(* Properties of a turn that begins with contradictions pending.           *)
(***************************************************************************)
\* the contradiction at the head of the queue when the turn began
OldestAtStart == turn.start.pending[1]

\* the turn resolved the head of the queue as its input says and did
\* nothing else
ResolvedOldestOnly ==
  LET before == turn.start.contradictions[OldestAtStart]
      after == memory.contradictions[OldestAtStart]
      use_new == ctx.current_input.says = "new"
  IN /\ turn.reply = IF use_new THEN "used_new" ELSE "kept_old"
     /\ after.resolved
     /\ after.resolution = turn.reply
     /\ memory.pending = Tail(turn.start.pending)
     /\ memory.data =
          IF use_new THEN Put(turn.start.data, before.field, before.new_value)
          ELSE turn.start.data
     /\ memory.confirmed[before.field]
     /\ ~ctx.current_plan.present
     /\ ctx.tools_called = <<>>
     /\ memory.history = turn.start.history
     /\ Len(memory.contradictions) = Len(turn.start.contradictions)

\* the turn resolved nothing, went through planning, and when it did not end
\* in error recovery it asked about the head of the queue
AskedAboutOldest ==
  LET before == turn.start.contradictions[OldestAtStart]
  IN /\ Len(memory.pending) >= Len(turn.start.pending)
     /\ SubSeq(memory.pending, 1, Len(turn.start.pending)) = turn.start.pending
     /\ \A i \in 1..Len(memory.pending) :
          ~memory.contradictions[memory.pending[i]].resolved
     /\ (pc = "idle" /\ turn.reply # "error")
          => /\ ctx.current_plan.present
             /\ ctx.current_state = "handling_contradiction"
             /\ turn.reply = "contradiction_question"
             /\ ctx.evaluation.contradiction_details =
                  [field |-> before.field, old_value |-> before.old_value,
                   new_value |-> before.new_value]

\* C36: a turn that starts with contradictions pending and whose input
\* selects the old or the new value resolves the oldest pending
\* contradiction of the queue accordingly and replies with the confirmation
\* without planning, writing a fact or calling a tool; a turn whose input
\* selects neither resolves nothing, goes on through planning and execution
\* and replies with the contradiction question for the oldest pending one.
C36_TurnResolvesOldestPending ==
  (turn.n > 0 /\ HasPending(turn.start))
  => IF ctx.current_input.says # "none"
     THEN pc = "pending" \/ (pc = "idle" /\ ResolvedOldestOnly)
     ELSE AskedAboutOldest

\* a turn that began with an age and an income contradiction pending, in
\* this order, has taken the new age
C36_Witness ==
  /\ pc = "idle"
  /\ turn.n > 0
  /\ Len(turn.start.pending) = 2
  /\ turn.start.contradictions[turn.start.pending[1]].field = "age"
  /\ turn.start.contradictions[turn.start.pending[2]].field = "income"
  /\ turn.reply = "used_new"
  /\ memory.data["age"] = 70

(***************************************************************************)
(* Properties of intent classification.                                    *)
(***************************************************************************)
\* the families in their order of priority, as (intent, keyword family);
\* provide_info has no keywords
IntentOrder ==
  <<<<"greeting", "greeting">>, <<"farewell", "farewell">>,
    <<"eligibility_check", "eligibility">>, <<"scheme_inquiry", "scheme">>,
    <<"application_help", "application">>, <<"document_info", "document">>,
    <<"provide_info", "none">>, <<"correction", "correction">>>>

\* the first intent of the order among those that match, general_question
\* when none does
FirstOf(matching) ==
  LET S == {i \in 1..Len(IntentOrder) : IntentOrder[i][1] \in matching}
  IN IF S = {} THEN "general_question" ELSE IntentOrder[Min(S)][1]

\* the intents whose family has a word in the utterance, with provide_info
\* when the extractor found a field
KeywordMatches ==
  {IntentOrder[i][1] : i \in {j \in 1..Len(IntentOrder) :
                                 IntentOrder[j][2] \in ret.pre.kw}}
    \cup (IF ret.pre.extracted # EmptyDict THEN {"provide_info"} ELSE {})

\* C37 (as stated): the intent is the first family, in the fixed order, that
\* the input matches, and general_question when it matches none.
C37_FirstMatchingFamilyWins ==
  ret.op = "classified" => ret.key = FirstOf(KeywordMatches)

\* C37 (amended): as stated, except that an input with a greeting word counts
\* as a greeting only when it has fewer than five words; a longer one is
\* classified by its other families.
C37_FirstMatchWithShortGreeting ==
  ret.op = "classified"
  => ret.key = FirstOf(IF ret.pre.short THEN KeywordMatches
                       ELSE KeywordMatches \ {"greeting"})

\* a long utterance with a greeting word, a scheme word and a document word
\* is a scheme inquiry
C37_Witness ==
  /\ ret.op = "classified"
  /\ ret.pre.kw = {"greeting", "scheme", "document"}
  /\ ~ret.pre.short
  /\ ret.pre.extracted # EmptyDict
  /\ ret.key = "scheme_inquiry"

(***************************************************************************)
(* Properties of a fresh session driven by turns only.                     *)
(***************************************************************************)
\* the planner of the current turn has run
Planned == turn.n > 0 /\ pc \notin {"pending", "plan"}

\* C38: in a session that starts fresh and takes turns only, no field is
\* ever confirmed and the queue of pending contradictions stays empty: every
\* value a turn states is stored, over a different value of an earlier turn
\* too, and no turn replies with a contradiction question or resolves one.
C38_TurnsNeverConfirmNorQueue ==
  /\ \A key \in DOMAIN memory.confirmed : ~memory.confirmed[key]
  /\ memory.pending = <<>>
  /\ turn.reply \notin {"contradiction_question", "used_new", "kept_old"}
  /\ Planned => \A key \in DOMAIN ctx.current_input.extracted :
                   /\ Has(memory, key)
                   /\ memory.data[key] = ctx.current_input.extracted[key]

\* the second turn stated age 70 over the 45 of the first and the session
\* holds 70
C38_Witness ==
  /\ pc = "idle"
  /\ turn.n = 2
  /\ Has(turn.start, "age")
  /\ turn.start.data["age"] = 45
  /\ ctx.current_input.extracted = [age |-> 70]
  /\ memory.data["age"] = 70
  /\ Len(memory.field_history["age"]) = 2
  /\ Len(memory.contradictions) = 1

(***************************************************************************)
(* Properties of the confirmed flag and of the value history.              *)
(***************************************************************************)
\* C39: a write to a confirmed field that is accepted (the same value, or a
\* change within the tolerance) leaves the field confirmed, so that a later
\* materially different write is still rejected.
C39_AcceptedWriteKeepsConfirmed ==
  (WasSet /\ PreConfirmed /\ ret.ok) => DictGet(memory.confirmed, ret.key, FALSE)

\* the last entry of the value history of a field
LastRecorded(key) ==
  memory.field_history[key][Len(memory.field_history[key])][1]

\* C40: every field that has a stored value has a value history whose last
\* entry is the stored value.
C40_HistoryEndsInStoredValue ==
  \A key \in DOMAIN memory.data :
     Has(memory, key)
     => /\ key \in DOMAIN memory.field_history
        /\ memory.field_history[key] # <<>>
        /\ LastRecorded(key) = memory.data[key]

====
